---------------------------- MODULE Spec2Model ----------------------------
(***************************************************************************)
(* A model of resume_app/converter.py: the resume parser (parse_resume),   *)
(* the contact classifier (build_contact_items), bullet cleaning           *)
(* (clean_bullet_text) and the dependency-free PDF renderer                *)
(* (_render_pdf_builtin): layout, pagination and the byte encoder.         *)
(*                                                                         *)
(* Text is a sequence of characters.  A character is a TLA+ string: an     *)
(* ASCII character stands for itself ("a", ":", "\n"), any other code      *)
(* point is written by its number ("U2022" is the bullet).  Bytes of the   *)
(* output buffer are written the same way ("x95" is the byte 0x95).        *)
(* Chars("abc") turns a TLA+ string literal into such a text.              *)
(*                                                                         *)
(* Lengths are integers in thousandths of a point (mpt): every size, gap   *)
(* and width of the renderer is a multiple of 0.001 pt.  The code computes *)
(* them as binary floats; the model computes the exact decimal value, so   *)
(* the last printed digit of a coordinate may differ from the float's at   *)
(* an exact tie (x.xx5).                                                   *)
(***************************************************************************)
EXTENDS Integers, Sequences, FiniteSets, TLC

VARIABLES
    pc,             \* control location of the run being modelled
    \* ---- clean_bullet_text(text)
    text_in,        \* its argument
    stripped,       \* its local `stripped`
    \* ---- build_contact_items(contact_lines)
    contact_lines,  \* its argument
    cidx,           \* number of contact lines the for loop has consumed
    entries,        \* its local `entries`
    seen,           \* its local `seen`
    \* ---- parse_resume(lines)
    lines,          \* its argument
    i,              \* its cursor, 0-based as in the code
    data,           \* the dict it builds
    section,        \* the active section, "" for None
    buffer,         \* the active section's buffer
    consumed,       \* history: for each line index passed by the cursor, the phase that passed it
    \* ---- _render_pdf_builtin(data, pdf_path, file_metadata)
    metadata_role,  \* file_metadata["role"], empty when there is no metadata
    items,          \* the draw-instruction list
    nitem,          \* number of items the item loop has consumed
    page_streams,   \* completed pages (byte sequences)
    current_cmds,   \* draw commands of the page being filled
    y,              \* the vertical cursor, mpt
    objects,        \* the object table; objects[1] is the unused slot 0
    offsets,        \* offsets[n + 1] is the recorded offset of object n
    obj_id,         \* the next object the writer loop appends
    xref_offset,    \* the position of the cross-reference table
    out,            \* the output buffer (bytes)
    written,        \* the buffers written to pdf_path, in order
    \* ---- convert_text_to_pdf(resume_text, output_pdf_path, source_hint), render_pdf
    source_hint,    \* its argument: a file name, << >> for None
    output_pdf_path,\* its argument: a path (its components), << >> for None
    env,            \* what the call finds: whether output_pdf_path is a directory,
                    \* whether fpdf and reportlab are installed
    pdf_path,       \* the path the document is rendered to
    attempts,       \* the renderers that have tried to produce the file, with their outcome
    logged,         \* what has been printed
    result,         \* how the call ended: a returned path or a raised error
    \* ---- _wrap_pdf_text(text, max_chars)
    wrap_text,      \* its argument `text`
    wrap_max,       \* its argument `max_chars`
    wrap_words,     \* the words the for loop has not yet taken
    wrap_current,   \* its local `current`
    wrap_lines,     \* its local `lines`; the returned list once the call is over
    \* ---- _pdf_safe_text(text) and _pdf_escape_text(text)
    pdf_text,       \* the argument `text`
    pdf_replaced,   \* `text` after the loop over the replacement table
    pdf_result,     \* the value returned
    \* ---- ResumePdfApp (main.py): the Generate PDF flow
    gui_platform,   \* how ensure_storage_permission answers on this device
    gui_initial,    \* the permission check on_start makes
    gui_status,     \* the text set_status showed last
    gui_requests    \* the presses of Generate PDF so far, one record each

vars == << pc, text_in, stripped, contact_lines, cidx, entries, seen,
           lines, i, data, section, buffer, consumed,
           metadata_role, items, nitem, page_streams, current_cmds, y,
           objects, offsets, obj_id, xref_offset, out, written,
           source_hint, output_pdf_path, env, pdf_path, attempts, logged, result,
           wrap_text, wrap_max, wrap_words, wrap_current, wrap_lines,
           pdf_text, pdf_replaced, pdf_result,
           gui_platform, gui_initial, gui_status, gui_requests >>

bulletVars == << text_in, stripped >>
contactVars == << contact_lines, cidx, entries, seen >>
parseVars == << lines, i, data, section, buffer, consumed >>
pageVars == << metadata_role, items, nitem, page_streams, current_cmds, y >>
encVars == << objects, offsets, obj_id, xref_offset, out, written >>
ioVars == << source_hint, output_pdf_path, env, pdf_path, attempts, logged, result >>
wrapVars == << wrap_text, wrap_max, wrap_words, wrap_current, wrap_lines >>
textVars == << pdf_text, pdf_replaced, pdf_result >>
guiVars == << gui_platform, gui_initial, gui_status, gui_requests >>

-----------------------------------------------------------------------------
(* Characters and text.                                                     *)

Chars(s) == [k \in 1..Len(s) |-> SubSeq(s, k, k)]

LowerLetters == Chars("abcdefghijklmnopqrstuvwxyz")
UpperLetters == Chars("ABCDEFGHIJKLMNOPQRSTUVWXYZ")
Digits == {"0", "1", "2", "3", "4", "5", "6", "7", "8", "9"}

Range(f) == {f[k] : k \in DOMAIN f}
SetMin(S) == CHOOSE m \in S : \A n \in S : m <= n
SetMax(S) == CHOOSE m \in S : \A n \in S : m >= n
Max2(a, b) == IF a >= b THEN a ELSE b

IsLower(c) == c \in Range(LowerLetters)
IsUpper(c) == c \in Range(UpperLetters)
IsAlpha(c) == IsLower(c) \/ IsUpper(c)

\* str.isspace() on the characters of the model's alphabet
IsSpace(c) == c \in {" ", "\t", "\n", "\r", "\f", "U00A0"}

LowerChar(c) ==
    IF IsUpper(c)
    THEN LowerLetters[CHOOSE k \in 1..26 : UpperLetters[k] = c]
    ELSE c

UpperChar(c) ==
    IF IsLower(c)
    THEN UpperLetters[CHOOSE k \in 1..26 : LowerLetters[k] = c]
    ELSE c

\* str.lower()
Lower(s) == [k \in 1..Len(s) |-> LowerChar(s[k])]

\* str.title(): a letter is upper-cased after a non-letter, lower-cased after a letter
Title(s) ==
    [k \in 1..Len(s) |->
        IF k = 1 \/ ~IsAlpha(s[k - 1]) THEN UpperChar(s[k]) ELSE LowerChar(s[k])]

\* str.strip()
Strip(s) ==
    LET keep == {k \in 1..Len(s) : ~IsSpace(s[k])}
    IN  IF keep = {} THEN << >> ELSE SubSeq(s, SetMin(keep), SetMax(keep))

\* str.rstrip(chars)
RStripChars(s, cs) ==
    LET keep == {k \in 1..Len(s) : s[k] \notin cs}
    IN  IF keep = {} THEN << >> ELSE SubSeq(s, 1, SetMax(keep))

\* str.startswith(p) and str.endswith(p)
StartsWith(s, p) == Len(s) >= Len(p) /\ SubSeq(s, 1, Len(p)) = p
EndsWith(s, p) == Len(s) >= Len(p) /\ SubSeq(s, Len(s) - Len(p) + 1, Len(s)) = p

\* sep.join(parts), by halves
RECURSIVE Join(_, _)
Join(parts, sep) ==
    IF parts = << >> THEN << >>
    ELSE IF Len(parts) = 1 THEN parts[1]
    ELSE LET h == Len(parts) \div 2
         IN  Join(SubSeq(parts, 1, h), sep) \o sep \o Join(SubSeq(parts, h + 1, Len(parts)), sep)

\* s.split(sep) for a non-empty separator: the pieces between its
\* leftmost non-overlapping occurrences
RECURSIVE SplitOn(_, _)
SplitOn(s, sep) ==
    LET hits == {k \in 1..(Len(s) - Len(sep) + 1) : SubSeq(s, k, k + Len(sep) - 1) = sep}
    IN  IF hits = {} THEN << s >>
        ELSE LET h == SetMin(hits)
             IN  << SubSeq(s, 1, h - 1) >> \o SplitOn(SubSeq(s, h + Len(sep), Len(s)), sep)

\* str.splitlines() on text whose only line boundary is "\n"
SplitLines(s) ==
    IF s = << >> THEN << >>
    ELSE LET parts == SplitOn(s, << "\n" >>)
         IN  IF parts[Len(parts)] = << >> THEN SubSeq(parts, 1, Len(parts) - 1) ELSE parts

\* the elements of a set of integers in increasing order
SortedSeq(S) == [n \in 1..Cardinality(S) |-> CHOOSE x \in S : Cardinality({z \in S : z < x}) = n - 1]

\* str.split(): the maximal runs of non-space characters
Words(s) ==
    LET starts == {k \in 1..Len(s) : ~IsSpace(s[k]) /\ (k = 1 \/ IsSpace(s[k - 1]))}
        ends == {k \in 1..Len(s) : ~IsSpace(s[k]) /\ (k = Len(s) \/ IsSpace(s[k + 1]))}
        from == SortedSeq(starts)
        to == SortedSeq(ends)
    IN  [n \in 1..Len(from) |-> SubSeq(s, from[n], to[n])]

\* re.search(r"\d{4}", s)
HasFourDigits(s) ==
    \E k \in 1..(Len(s) - 3) : \A d \in 0..3 : s[k + d] \in Digits

-----------------------------------------------------------------------------
(* clean_bullet_text                                                        *)

BulletGlyphs == {"*", "-", "U2022"}

\* `stripped.startswith(('*', '-', '•'))`
StartsWithGlyph(s) == s # << >> /\ s[1] \in BulletGlyphs

\* the mutant drops one glyph without stripping the rest again
DropGlyphNoStrip(s) == Tail(s)

\* the loop body: `stripped = stripped[1:].strip()`
DropGlyph(s) == Strip(Tail(s))

RECURSIVE CleanLoop(_)
CleanLoop(s) == IF StartsWithGlyph(s) THEN CleanLoop(DropGlyph(s)) ELSE s

\* clean_bullet_text(text) as a whole, for its callers
clean_bullet_text(text) == CleanLoop(Strip(text))

-----------------------------------------------------------------------------
(* build_contact_items                                                      *)

Txt_company_name == Chars("company name:")
Txt_mailto == Chars("mailto:")
Txt_email == Chars("email")
Txt_address == Chars("address")
Txt_india == Chars("india")
Txt_comma_India == Chars(", India")
Txt_space_India == Chars(" India")
Txt_email_sep == Chars(" / ")

\* `re.sub(r"mailto:\s*", '', value, flags=re.IGNORECASE)`
RECURSIVE RemoveMailto(_)
RemoveMailto(s) ==
    LET hits == {k \in 1..(Len(s) - 6) : Lower(SubSeq(s, k, k + 6)) = Txt_mailto}
    IN  IF hits = {} THEN s
        ELSE LET h == SetMin(hits)
                 rest == SubSeq(s, h + 7, Len(s))
                 nonsp == {k \in 1..Len(rest) : ~IsSpace(rest[k])}
                 after == IF nonsp = {} THEN << >>
                          ELSE SubSeq(rest, SetMin(nonsp), Len(rest))
             IN  SubSeq(s, 1, h - 1) \o RemoveMailto(after)

\* `.replace('<', '').replace('>', '').replace('[', '').replace(']', '')`
RemoveBrackets(s) == SelectSeq(s, LAMBDA c : c \notin {"<", ">", "[", "]"})

\* the character classes of r"[A-Za-z0-9._%+-]+@[A-Za-z0-9.-]+"
IsEmailDomainChar(c) == IsAlpha(c) \/ c \in Digits \/ c \in {".", "-"}
IsEmailLocalChar(c) == IsEmailDomainChar(c) \/ c \in {"_", "%", "+"}

\* the end of the maximal run that starts at k and holds none of the
\* positions in `outside` (a greedy character-class repetition)
RunEnd(s, k, outside) ==
    LET stops == {m \in outside : m >= k}
    IN  IF stops = {} THEN Len(s) ELSE SetMin(stops) - 1

NotEmailLocal(s) == {m \in 1..Len(s) : ~IsEmailLocalChar(s[m])}
NotEmailDomain(s) == {m \in 1..Len(s) : ~IsEmailDomainChar(s[m])}

\* whether the pattern matches starting exactly at k ("@" is in neither
\* class, so the greedy local part never needs to give characters back)
EmailMatchAt(s, k) ==
    /\ k <= Len(s) /\ IsEmailLocalChar(s[k])
    /\ LET e == RunEnd(s, k, NotEmailLocal(s))
       IN  /\ e + 2 <= Len(s)
           /\ s[e + 1] = "@"
           /\ IsEmailDomainChar(s[e + 2])

\* `re.findall(pattern, value)`: leftmost non-overlapping matches
RECURSIVE FindEmails(_)
FindEmails(s) ==
    LET starts == {k \in 1..Len(s) : EmailMatchAt(s, k)}
    IN  IF starts = {} THEN << >>
        ELSE LET b == SetMin(starts)
                 e == RunEnd(s, b, NotEmailLocal(s))
                 d == RunEnd(s, e + 2, NotEmailDomain(s))
             IN  << SubSeq(s, b, d) >> \o FindEmails(SubSeq(s, d + 1, Len(s)))

\* `email not in unique_emails` compares the tokens as they are written
SameEmailToken(a, b) == a = b

\* the loop `for email in found_emails: if email not in unique_emails: ...`
RECURSIVE UniqueEmails(_, _)
UniqueEmails(found, acc) ==
    IF found = << >> THEN acc
    ELSE UniqueEmails(Tail(found),
            IF \E k \in 1..Len(acc) : SameEmailToken(acc[k], Head(found))
            THEN acc ELSE Append(acc, Head(found)))

\* the `label_key == 'email'` branch
NormalizeEmail(value) ==
    LET v == RemoveBrackets(RemoveMailto(value))
        found == FindEmails(v)
    IN  IF found # << >> THEN Join(UniqueEmails(found, << >>), Txt_email_sep) ELSE v

\* the `label_key == 'address'` branch
NormalizeAddress(value) ==
    LET v == RStripChars(value, {",", " "})
    IN  IF v # << >> /\ ~EndsWith(Lower(v), Txt_india)
        THEN IF ~EndsWith(v, << "." >>) THEN v \o Txt_comma_India ELSE v \o Txt_space_India
        ELSE v

ContactEntry(label, label_key, value) ==
    [label |-> label, label_key |-> label_key, value |-> value]

\* The entry one raw contact line yields, before de-duplication: a sequence
\* holding it, or the empty sequence where the loop body hits `continue`.
ContactCandidate(raw) ==
    LET line0 == Strip(raw)
    IN  IF line0 = << >> \/ StartsWith(Lower(line0), Txt_company_name) THEN << >>
        ELSE LET line == clean_bullet_text(line0)
                 colons == {k \in 1..Len(line) : line[k] = ":"}
             IN  IF colons # {}
                 THEN LET c == SetMin(colons)
                          label == Title(Strip(SubSeq(line, 1, c - 1)))
                          value == Strip(SubSeq(line, c + 1, Len(line)))
                          label_key == Lower(label)
                      IN  IF value = << >> THEN << >>
                          ELSE IF label_key = Txt_email
                               THEN << ContactEntry(label, label_key, NormalizeEmail(value)) >>
                          ELSE IF label_key = Txt_address
                               THEN << ContactEntry(label, label_key, NormalizeAddress(value)) >>
                          ELSE << ContactEntry(label, label_key, value) >>
                 ELSE << ContactEntry(<< >>, << >>, line) >>

\* the mutant keys the de-duplication on the value as written
DedupeKeyCaseSensitive(entry) == << entry.label_key, entry.value >>

\* `dedupe_key = (entry['label_key'], entry['value'].lower())`
DedupeKey(entry) == << entry.label_key, Lower(entry.value) >>

\* One iteration of `for raw in contact_lines`, on st = [entries, seen].
ContactStep(st, raw) ==
    LET cand == ContactCandidate(raw)
    IN  IF cand # << >> /\ cand[1].value # << >> /\ DedupeKey(cand[1]) \notin st.seen
        THEN [entries |-> Append(st.entries, cand[1]),
              seen |-> st.seen \cup {DedupeKey(cand[1])}]
        ELSE st

RECURSIVE ContactFold(_, _)
ContactFold(st, raws) ==
    IF raws = << >> THEN st ELSE ContactFold(ContactStep(st, Head(raws)), Tail(raws))

\* build_contact_items(contact_lines) as a whole, for its callers
build_contact_items(raws) == ContactFold([entries |-> << >>, seen |-> {}], raws).entries

\* The copy of build_contact_items nested in render_docx (lines 1309-1348).
\* It differs from the module-level function in the address branch, where
\* the test for an empty value guards the comma instead of the whole
\* suffix; its clean_bullet_text (lines 1301-1307) is the same loop.
NormalizeAddressDocx(value) ==
    LET v == RStripChars(value, {",", " "})
    IN  IF ~EndsWith(Lower(v), Txt_india)
        THEN IF v # << >> /\ ~EndsWith(v, << "." >>)
             THEN v \o Txt_comma_India ELSE v \o Txt_space_India
        ELSE v

ContactCandidateDocx(raw) ==
    LET line0 == Strip(raw)
    IN  IF line0 = << >> \/ StartsWith(Lower(line0), Txt_company_name) THEN << >>
        ELSE LET line == clean_bullet_text(line0)
                 colons == {k \in 1..Len(line) : line[k] = ":"}
             IN  IF colons # {}
                 THEN LET c == SetMin(colons)
                          label == Title(Strip(SubSeq(line, 1, c - 1)))
                          value == Strip(SubSeq(line, c + 1, Len(line)))
                          label_key == Lower(label)
                      IN  IF value = << >> THEN << >>
                          ELSE IF label_key = Txt_email
                               THEN << ContactEntry(label, label_key, NormalizeEmail(value)) >>
                          ELSE IF label_key = Txt_address
                               THEN << ContactEntry(label, label_key,
                                                    NormalizeAddressDocx(value)) >>
                          ELSE << ContactEntry(label, label_key, value) >>
                 ELSE << ContactEntry(<< >>, << >>, line) >>

RECURSIVE ContactFoldDocx(_, _)
ContactFoldDocx(st, raws) ==
    IF raws = << >> THEN st
    ELSE LET cand == ContactCandidateDocx(Head(raws))
             next == IF cand # << >> /\ cand[1].value # << >>
                        /\ DedupeKey(cand[1]) \notin st.seen
                     THEN [entries |-> Append(st.entries, cand[1]),
                           seen |-> st.seen \cup {DedupeKey(cand[1])}]
                     ELSE st
         IN  ContactFoldDocx(next, Tail(raws))

build_contact_items_docx(raws) == ContactFoldDocx([entries |-> << >>, seen |-> {}], raws).entries

-----------------------------------------------------------------------------
(* parse_resume: the section flush.                                         *)

SummaryKeys == {Chars("professional summary"), Chars("summary")}
ExperienceKeys == {Chars("professional experience"), Chars("experience")}
SkillsKeys == {Chars("technical skills"), Chars("skills")}
EducationKeys == {Chars("education"), Chars("qualification")}
Txt_certificat == Chars("certificat")
Txt_nationality == Chars("nationality:")

KNOWN_SECTION_KEYS ==
    SummaryKeys \cup ExperienceKeys \cup SkillsKeys \cup EducationKeys
        \cup {Chars("certifications"), Chars("certification")}

IsBlank(ln) == Strip(ln) = << >>

\* `[ln for ln in p.splitlines() if ln.strip()]`
NonBlankLines(p) == SelectSeq(SplitLines(p), LAMBDA ln : ~IsBlank(ln))

\* `[p.strip() for p in text.split("\n\n") if p.strip()]`
ExperienceBlocks(text) ==
    LET parts == SplitOn(text, << "\n", "\n" >>)
        kept == SelectSeq(parts, LAMBDA q : ~IsBlank(q))
    IN  [k \in 1..Len(kept) |-> Strip(kept[k])]

\* the bullet loop over lines_p[idx:]: strip, drop the leading glyphs, keep
\* what is not empty (the loop is written out in the code, it does not call
\* clean_bullet_text)
RECURSIVE CleanedNonEmpty(_)
CleanedNonEmpty(lns) ==
    IF lns = << >> THEN << >>
    ELSE LET b == CleanLoop(Strip(Head(lns)))
         IN  (IF b # << >> THEN << b >> ELSE << >>) \o CleanedNonEmpty(Tail(lns))

ExperienceRecord(header, duration, bullets) ==
    [header |-> header, duration |-> duration, bullets |-> bullets]

\* the mutant keeps a glyph-led first line as the header as well
ExperienceEntryKeepsHeader(lines_p) ==
    LET header == lines_p[1]
        hasDur == Len(lines_p) > 1 /\ HasFourDigits(lines_p[2])
        rest == SubSeq(lines_p, IF hasDur THEN 3 ELSE 2, Len(lines_p))
        header_clean == CleanLoop(Strip(header))
    IN  ExperienceRecord(header,
            IF hasDur THEN << lines_p[2] >> ELSE << >>,
            IF StartsWithGlyph(Strip(header)) /\ header_clean # << >>
            THEN << header_clean >> \o CleanedNonEmpty(rest)
            ELSE CleanedNonEmpty(rest))

\* The entry of one block (the body of `for p in parts`); lines_p is not
\* empty.  duration is << >> for None and << text >> otherwise.
\* the mutant makes bullets of every line after the first, the duration
\* line included
ExperienceEntryDurationAlsoBullet(lines_p) ==
    LET header == lines_p[1]
        hasDur == Len(lines_p) > 1 /\ HasFourDigits(lines_p[2])
        bullets == CleanedNonEmpty(Tail(lines_p))
        header_clean == CleanLoop(Strip(header))
    IN  IF StartsWithGlyph(Strip(header))
        THEN ExperienceRecord(<< >>,
                 IF hasDur THEN << lines_p[2] >> ELSE << >>,
                 IF header_clean # << >> THEN << header_clean >> \o bullets ELSE bullets)
        ELSE ExperienceRecord(header, IF hasDur THEN << lines_p[2] >> ELSE << >>, bullets)

ExperienceEntry(lines_p) ==
    LET header == lines_p[1]
        hasDur == Len(lines_p) > 1 /\ HasFourDigits(lines_p[2])
        rest == SubSeq(lines_p, IF hasDur THEN 3 ELSE 2, Len(lines_p))
        bullets == CleanedNonEmpty(rest)
        header_clean == CleanLoop(Strip(header))
    IN  IF StartsWithGlyph(Strip(header))
        THEN ExperienceRecord(<< >>,
                 IF hasDur THEN << lines_p[2] >> ELSE << >>,
                 IF header_clean # << >> THEN << header_clean >> \o bullets ELSE bullets)
        ELSE ExperienceRecord(header, IF hasDur THEN << lines_p[2] >> ELSE << >>, bullets)

\* the entries the experience branch appends for a buffer text
ExperienceEntries(text) ==
    LET blocks == ExperienceBlocks(text)
        nonempty == SelectSeq(blocks, LAMBDA p : NonBlankLines(p) # << >>)
    IN  [k \in 1..Len(nonempty) |-> ExperienceEntry(NonBlankLines(nonempty[k]))]

\* `[l.strip() for l in text.splitlines() if l.strip()]` with the leading
\* glyphs dropped from each line; a line of glyphs only stays, empty
SkillsCleanedLines(text) ==
    LET lns == NonBlankLines(text)
    IN  [k \in 1..Len(lns) |-> CleanLoop(Strip(lns[k]))]

\* `re.split(r"[-,\n;]+", s)`
RECURSIVE SplitSkills(_)
SplitSkills(s) ==
    LET IsSep(c) == c \in {"-", ",", "\n", ";"}
        seps == {k \in 1..Len(s) : IsSep(s[k])}
    IN  IF seps = {} THEN << s >>
        ELSE LET h == SetMin(seps)
                 e == RunEnd(s, h, {k \in 1..Len(s) : ~IsSep(s[k])})
             IN  << SubSeq(s, 1, h - 1) >> \o SplitSkills(SubSeq(s, e + 1, Len(s)))

\* `re.sub(r'([a-z])([A-Z])', r'\1 \2', s)`: a space between a lower-case
\* letter and the upper-case letter that follows it
CamelSpace(s) ==
    Join([k \in 1..Len(s) |->
             IF k < Len(s) /\ IsLower(s[k]) /\ IsUpper(s[k + 1]) THEN << s[k], " " >>
             ELSE << s[k] >>],
         << >>)

\* the legacy `skills` list
LegacySkills(skills_raw) ==
    LET raw == SplitSkills(skills_raw)
        kept == SelectSeq(raw, LAMBDA t : Strip(t) # << >>)
    IN  [k \in 1..Len(kept) |-> CamelSpace(Strip(kept[k]))]

\* the mutant files the lines buffered before any heading as the summary
flush_bufferNoSectionIsSummary(d, sec, buf) ==
    LET text == Strip(Join(buf, << "\n" >>))
    IN  IF text = << >> THEN d
        ELSE IF sec \in {"", "professional summary"} THEN [d EXCEPT !.summary = text]
        ELSE IF sec = "professional experience"
             THEN [d EXCEPT !.experience = @ \o ExperienceEntries(text)]
        ELSE d

\* flush_buffer(sec, buf): the dict after the flush
flush_buffer(d, sec, buf) ==
    LET text == Strip(Join(buf, << "\n" >>))
    IN  IF text = << >> THEN d
        ELSE IF sec = "professional summary" THEN [d EXCEPT !.summary = text]
        ELSE IF sec = "professional experience"
             THEN [d EXCEPT !.experience = @ \o ExperienceEntries(text)]
        ELSE IF sec = "technical skills"
             THEN LET raw == Join(SkillsCleanedLines(text), << "\n" >>)
                  IN  [d EXCEPT !.skills_raw = raw, !.skills = LegacySkills(raw)]
        ELSE IF sec = "certifications"
             THEN [d EXCEPT !.certifications = CleanedNonEmpty(SplitLines(text))]
        ELSE IF sec = "education"
             THEN [d EXCEPT !.education = CleanedNonEmpty(SplitLines(text))]
        ELSE d

\* the mutant knows each heading by its long form only
SectionOfKeyLongFormsOnly(key) ==
    IF key = Chars("professional summary") THEN "professional summary"
    ELSE IF key = Chars("professional experience") THEN "professional experience"
    ELSE IF key = Chars("technical skills") THEN "technical skills"
    ELSE IF StartsWith(key, Txt_certificat) THEN "certifications"
    ELSE IF key = Chars("education") THEN "education"
    ELSE ""

\* the section a heading line switches to, "" when the line is no heading
\* (the if/elif chain of the scan loop on `key`)
SectionOfKey(key) ==
    IF key \in SummaryKeys THEN "professional summary"
    ELSE IF key \in ExperienceKeys THEN "professional experience"
    ELSE IF key \in SkillsKeys THEN "technical skills"
    ELSE IF StartsWith(key, Txt_certificat) THEN "certifications"
    ELSE IF key \in EducationKeys THEN "education"
    ELSE ""

\* `ln.lower().rstrip(":")`
LineKey(ln) == RStripChars(Lower(ln), {":"})

-----------------------------------------------------------------------------
(* _render_pdf_builtin: text encoding and the layout engine.                *)

\* the `replacements` table of _pdf_safe_text (it maps the bullet to itself)
ReplaceChar(c) ==
    CASE c \in {"U2013", "U2014"} -> "-"
      [] c \in {"U2018", "U2019"} -> "'"
      [] c \in {"U201C", "U201D"} -> "\""
      [] c = "U2022" -> "U2022"
      [] c = "U00A0" -> " "
      [] OTHER -> c

\* one character through `.encode("cp1252", errors="replace")`: ASCII is
\* itself, the characters of the model's alphabet that cp1252 holds get
\* their byte, any other character becomes "?"
Cp1252Byte(c) ==
    CASE Len(c) = 1 -> c
      [] c = "U2022" -> "x95"
      [] c = "U2013" -> "x96"
      [] c = "U2014" -> "x97"
      [] c = "U2018" -> "x91"
      [] c = "U2019" -> "x92"
      [] c = "U201C" -> "x93"
      [] c = "U201D" -> "x94"
      [] c = "U00A0" -> "xA0"
      [] OTHER -> "?"

\* one byte through `.decode("cp1252")`
Cp1252Char(b) ==
    CASE b = "x95" -> "U2022"
      [] b = "x96" -> "U2013"
      [] b = "x97" -> "U2014"
      [] b = "x91" -> "U2018"
      [] b = "x92" -> "U2019"
      [] b = "x93" -> "U201C"
      [] b = "x94" -> "U201D"
      [] b = "xA0" -> "U00A0"
      [] OTHER -> b

Encode(s) == [k \in 1..Len(s) |-> Cp1252Byte(s[k])]
Decode(b) == [k \in 1..Len(b) |-> Cp1252Char(b[k])]

\* _pdf_safe_text(text)
pdf_safe_text(text) == Decode(Encode([k \in 1..Len(text) |-> ReplaceChar(text[k])]))

\* the mutant escapes the parentheses only
EscapeCharsParenthesesOnly(s) ==
    Join([k \in 1..Len(s) |-> IF s[k] \in {"(", ")"} THEN << "\\", s[k] >> ELSE << s[k] >>],
         << >>)

\* _pdf_escape_text(text): a backslash before each backslash and parenthesis
EscapeChars(s) ==
    Join([k \in 1..Len(s) |-> IF s[k] \in {"\\", "(", ")"} THEN << "\\", s[k] >> ELSE << s[k] >>],
         << >>)

pdf_escape_text(text) == EscapeChars(pdf_safe_text(text))

\* the mutant starts a new line when the candidate fills the line exactly
FitsStrictly(candidate, max_chars) == Len(candidate) < max_chars

\* line 410: `len(candidate) <= max_chars`
Fits(candidate, max_chars) == Len(candidate) <= max_chars

\* the loop of _wrap_pdf_text over words[1:]
RECURSIVE WrapWords(_, _, _)
WrapWords(words, current, max_chars) ==
    IF words = << >> THEN << current >>
    ELSE LET candidate == current \o << " " >> \o Head(words)
         IN  IF Fits(candidate, max_chars)
             THEN WrapWords(Tail(words), candidate, max_chars)
             ELSE << current >> \o WrapWords(Tail(words), Head(words), max_chars)

\* _wrap_pdf_text(text, max_chars)
wrap_pdf_text(text, max_chars) ==
    LET t == Strip(pdf_safe_text(text))
        words == Words(t)
    IN  IF t = << >> THEN << << >> >>
        ELSE WrapWords(Tail(words), Head(words), max_chars)

\* the page geometry, in mpt
page_w == 595000
page_h == 842000
margin_l == 40000
margin_r == 40000
margin_t == 40000
margin_b == 40000
content_w == page_w - margin_l - margin_r

\* approx_text_width(text, size, bold): 0.56 or 0.52 of the size per character
approx_text_width(text, size, bold) ==
    (Len(pdf_safe_text(text)) * size * (IF bold THEN 56 ELSE 52)) \div 100

line_item(text, size, bold, align, indent, gap_after) ==
    [type |-> "line", text |-> pdf_safe_text(text), size |-> size, bold |-> bold,
     align |-> align, indent |-> indent, gap_after |-> gap_after]

para_item(text, size, bold, indent, bullet, gap_after) ==
    [type |-> "para", text |-> pdf_safe_text(text), size |-> size, bold |-> bold,
     indent |-> indent, bullet |-> bullet, gap_after |-> gap_after]

expmeta_item(left, right, size, gap_after) ==
    [type |-> "expmeta", left |-> pdf_safe_text(left), right |-> pdf_safe_text(right),
     size |-> size, gap_after |-> gap_after]

kv_para_item(label, value, size, indent, gap_after) ==
    [type |-> "kvpara", label |-> pdf_safe_text(label), value |-> pdf_safe_text(value),
     size |-> size, indent |-> indent, gap_after |-> gap_after]

spacer_item(height) == [type |-> "spacer", height |-> height]

rule_item(gap_after) == [type |-> "rule", gap_after |-> gap_after]

Upper(s) == [k \in 1..Len(s) |-> UpperChar(s[k])]

\* the mutant puts a new spacer before the heading whatever the last item is
add_section_headingStacks(its, title) ==
    its \o << spacer_item(18000), line_item(Upper(title), 11500, TRUE, "L", 0, 2000),
              rule_item(6000) >>

\* add_section_heading(title) on the list built so far
add_section_heading(its, title) ==
    LET spaced ==
            IF its = << >> THEN its
            ELSE IF its[Len(its)].type = "spacer"
                 THEN [its EXCEPT ![Len(its)].height = Max2(@, 18000)]
                 ELSE Append(its, spacer_item(18000))
    IN  spaced \o << line_item(Upper(title), 11500, TRUE, "L", 0, 2000), rule_item(6000) >>

\* the labels of `label_titles`
KnownContactKeys == {Chars("phone"), Chars("email"), Chars("address"), Chars("nationality")}

\* lines 510-520: the name line, the headline, the spacer under them
HeaderItems(d, role) ==
    LET candidate_name == IF Strip(d.name) # << >> THEN Strip(d.name) ELSE Chars("Candidate Name")
        effective_title == Strip(d.title)
        role0 == Strip(role)
        metadata_role_ == IF role0 # << >> /\ effective_title # << >>
                             /\ Lower(role0) = Lower(effective_title)
                          THEN << >> ELSE role0
        bits == SelectSeq(<< effective_title, metadata_role_ >>, LAMBDA b : b # << >>)
        unique == IF Len(bits) = 2 /\ bits[1] = bits[2] THEN << bits[1] >> ELSE bits
    IN  << line_item(candidate_name, 22000, TRUE, "C", 0, 3000) >>
          \o (IF bits # << >>
              THEN << line_item(Join(unique, Chars(" | ")), 11500, TRUE, "C", 0, 2000) >>
              ELSE << >>)
          \o << spacer_item(28000) >>

\* lines 522-539: one item per contact fact, then a spacer
ContactItems(d) ==
    LET facts == build_contact_items(d.contact)
        shown == SelectSeq(facts, LAMBDA f : Strip(f.value) # << >>)
        ItemOf(f) ==
            IF f.label_key \in KnownContactKeys
            THEN kv_para_item(Title(f.label_key) \o Chars(": "), Strip(f.value), 10000, 0, 1000)
            ELSE para_item(Strip(f.value), 10000, FALSE, 0, FALSE, 1000)
    IN  IF facts = << >> THEN << >>
        ELSE [k \in 1..Len(shown) |-> ItemOf(shown[k])] \o << spacer_item(6000) >>

\* `[clean_bullet_text(x) for x in xs if clean_bullet_text(x)]`
CleanedKept(xs) ==
    LET kept == SelectSeq(xs, LAMBDA x : clean_bullet_text(x) # << >>)
    IN  [k \in 1..Len(kept) |-> clean_bullet_text(kept[k])]

BulletParas(xs) == [k \in 1..Len(xs) |-> para_item(xs[k], 10000, FALSE, 12000, TRUE, 800)]

\* lines 549-558: the items of one experience entry
RoleItems(role) ==
    LET header == clean_bullet_text(role.header)
        duration == IF role.duration = << >> THEN << >> ELSE clean_bullet_text(role.duration[1])
    IN  (IF header # << >> \/ duration # << >>
         THEN << expmeta_item(header, duration, 10200, 2000) >> ELSE << >>)
          \o BulletParas(CleanedKept(role.bullets))
          \o << spacer_item(4000) >>

RECURSIVE ExperienceItems(_)
ExperienceItems(roles) ==
    IF roles = << >> THEN << >> ELSE RoleItems(Head(roles)) \o ExperienceItems(Tail(roles))

\* lines 563-568: the item of one skills line
SkillItem(entry) ==
    LET colons == {k \in 1..Len(entry) : entry[k] = ":"}
    IN  IF colons # {}
        THEN kv_para_item(Strip(SubSeq(entry, 1, SetMin(colons) - 1)) \o Chars(": "),
                          Strip(SubSeq(entry, SetMin(colons) + 1, Len(entry))), 10000, 0, 1200)
        ELSE para_item(entry, 10000, FALSE, 12000, TRUE, 800)

\* a section of the list: nothing when it has no item, else its heading
\* and its items (each `if ...: add_section_heading(...)` of lines 541-580
\* holds exactly when the section has an item)
AddSection(its, title, body) ==
    IF body = << >> THEN its ELSE add_section_heading(its, title) \o body

\* lines 541-544
SummaryItems(d) ==
    LET kept == CleanedKept(<< d.summary >>)
    IN  [k \in 1..Len(kept) |-> para_item(kept[k], 10000, FALSE, 0, FALSE, 2000)]

\* lines 560-568
SkillsItems(d) ==
    LET skills_lines == CleanedKept(SplitLines(d.skills_raw))
    IN  [k \in 1..Len(skills_lines) |-> SkillItem(skills_lines[k])]

\* lines 576-580
EducationItems(d) ==
    LET education_lines == CleanedKept(d.education)
    IN  [k \in 1..Len(education_lines) |->
            para_item(education_lines[k], 10000, FALSE, 0, FALSE, 800)]

\* lines 498-580: the draw-instruction list of a document
BuildItemList(d, role) ==
    AddSection(
        AddSection(
            AddSection(
                AddSection(
                    AddSection(HeaderItems(d, role) \o ContactItems(d),
                               Chars("PROFESSIONAL SUMMARY"), SummaryItems(d)),
                    Chars("PROFESSIONAL EXPERIENCE"), ExperienceItems(d.experience)),
                Chars("SKILLS"), SkillsItems(d)),
            Chars("CERTIFICATIONS"), BulletParas(CleanedKept(d.certifications))),
        Chars("EDUCATION"), EducationItems(d))

-----------------------------------------------------------------------------
(* _render_pdf_builtin: the paginator.  Its state is the record             *)
(* [cmds, y, pages] of current_cmds, y and page_streams.                    *)

\* a non-negative integer in decimal
Dec(n) == Chars(ToString(n))

\* f"{v:.2f}" of a length v >= 0 given in mpt
Fmt2(v) ==
    LET h == (v + 5) \div 10
        frac == h % 100
    IN  Dec(h \div 100) \o << "." >> \o (IF frac < 10 THEN << "0" >> ELSE << >>) \o Dec(frac)

\* the mutant opens the next page without keeping the one it closes
flush_pageDropsPage(st) == [cmds |-> << >>, y |-> page_h - margin_t, pages |-> st.pages]

\* the mutant adds the commands to the page flushed last instead of
\* closing a new one
flush_pageReopensLast(st) ==
    IF st.cmds = << >>
    THEN [st EXCEPT !.y = page_h - margin_t]
    ELSE [cmds |-> << >>, y |-> page_h - margin_t,
          pages |-> IF st.pages = << >>
                    THEN << Encode(Join(st.cmds, << "\n" >>)) >>
                    ELSE [st.pages EXCEPT ![Len(st.pages)] =
                              @ \o << "\n" >> \o Encode(Join(st.cmds, << "\n" >>))]]

\* the mutant closes a page even when it holds no commands
flush_pageEmitsEmpty(st) ==
    [cmds |-> << >>, y |-> page_h - margin_t,
     pages |-> Append(st.pages, Encode(Join(st.cmds, << "\n" >>)))]

\* flush_page()
flush_page(st) ==
    IF st.cmds = << >>
    THEN [st EXCEPT !.y = page_h - margin_t]
    ELSE [cmds |-> << >>, y |-> page_h - margin_t,
          pages |-> Append(st.pages, Encode(Join(st.cmds, << "\n" >>)))]

\* the mutant also flushes when the instruction ends exactly on the margin
ensure_spaceFlushesAtMargin(st, height_needed) ==
    IF st.y - height_needed <= margin_b THEN flush_page(st) ELSE st

\* ensure_space(height_needed)
ensure_space(st, height_needed) ==
    IF st.y - height_needed < margin_b THEN flush_page(st) ELSE st

\* `line_h = max(12.0, size * 1.35)`
LineHeight(size) == Max2(12000, (size * 135) \div 100)

\* the five operators that show one string at (x, y)
TextCmds(text, size, bold, x, yy) ==
    << Chars("BT"),
       Chars(IF bold THEN "/F2" ELSE "/F1") \o << " " >> \o Fmt2(size) \o Chars(" Tf"),
       Chars("1 0 0 1 ") \o Fmt2(x) \o << " " >> \o Fmt2(yy) \o Chars(" Tm"),
       << "(" >> \o pdf_escape_text(text) \o Chars(") Tj"),
       Chars("ET") >>

\* add_text_line(text, size, bold, align, indent)
add_text_line(st, text, size, bold, align, indent) ==
    LET line_h == LineHeight(size)
        s1 == ensure_space(st, line_h)
        width == approx_text_width(text, size, bold)
        x == CASE align = "C" -> Max2(margin_l, (page_w - width) \div 2)
               [] align = "R" -> Max2(margin_l + indent, page_w - margin_r - width)
               [] OTHER -> margin_l + indent
    IN  [s1 EXCEPT !.cmds = @ \o TextCmds(text, size, bold, x, s1.y), !.y = @ - line_h]

\* the loop of add_text_segments_line: the operators of the segments from
\* position x on, at height yy
RECURSIVE SegmentCmds(_, _, _, _)
SegmentCmds(segments, size, x, yy) ==
    IF segments = << >> THEN << >>
    ELSE LET text == Head(segments)[1]
             bold == Head(segments)[2]
         IN  IF text = << >> THEN SegmentCmds(Tail(segments), size, x, yy)
             ELSE TextCmds(text, size, bold, x, yy)
                    \o SegmentCmds(Tail(segments), size,
                                   x + approx_text_width(text, size, bold), yy)

\* add_text_segments_line(segments, size, indent)
add_text_segments_line(st, segments, size, indent) ==
    LET line_h == LineHeight(size)
        s1 == ensure_space(st, line_h)
    IN  [s1 EXCEPT !.cmds = @ \o SegmentCmds(segments, size, margin_l + indent, s1.y),
                   !.y = @ - line_h]

\* add_rule_line()
add_rule_line(st) ==
    LET s1 == ensure_space(st, 6000)
        rule_y == s1.y - 1000
    IN  [s1 EXCEPT !.cmds = @ \o << Chars("q"), Chars("0.75 w"),
                                    Fmt2(margin_l) \o << " " >> \o Fmt2(rule_y) \o Chars(" m"),
                                    Fmt2(page_w - margin_r) \o << " " >> \o Fmt2(rule_y)
                                        \o Chars(" l"),
                                    Chars("S"), Chars("Q") >>,
                   !.y = @ - 6000]

\* `for segment in segments: add_text_line(segment, ...)`
RECURSIVE AddTextLines(_, _, _, _, _)
AddTextLines(st, segments, size, bold, indent) ==
    IF segments = << >> THEN st
    ELSE AddTextLines(add_text_line(st, Head(segments), size, bold, "L", indent),
                      Tail(segments), size, bold, indent)

\* `if item.get("gap_after", 0): ensure_space(...); y -= ...`
GapAfter(st, item) ==
    IF item.gap_after # 0
    THEN [ensure_space(st, item.gap_after) EXCEPT !.y = @ - item.gap_after]
    ELSE st

\* `max_chars = max(20, int(width / (size * 0.52)))`
MaxChars(width, size) ==
    LET per_char == (size * 52) \div 100
    IN  Max2(20, IF width < 0 THEN -((-width) \div per_char) ELSE width \div per_char)

\* the mutant does not move the cursor back up before the duration: the
\* duration of a one-line entry is shown one line lower
DrawExpMetaNoRewind(st, item) ==
    LET size == item.size
        left == item.left
        right == item.right
        line_h == LineHeight(size)
        s1 == ensure_space(st, line_h)
        left_w == approx_text_width(left, size, TRUE)
        right_w == approx_text_width(right, size, FALSE)
    IN  IF left # << >> /\ right # << >>
        THEN IF left_w + right_w + 18000 <= content_w
             THEN add_text_line(add_text_line(s1, left, size, TRUE, "L", 0),
                                right, size, FALSE, "R", 0)
             ELSE add_text_line(add_text_line(s1, left, size, TRUE, "L", 0),
                                right, Max2(9500, size - 200), FALSE, "L", 12000)
        ELSE IF left # << >> THEN add_text_line(s1, left, size, TRUE, "L", 0)
        ELSE IF right # << >> THEN add_text_line(s1, right, size, FALSE, "R", 0)
        ELSE s1

\* lines 681-701: the header and the duration of an experience entry
DrawExpMeta(st, item) ==
    LET size == item.size
        left == item.left
        right == item.right
        line_h == LineHeight(size)
        s1 == ensure_space(st, line_h)
        left_w == approx_text_width(left, size, TRUE)
        right_w == approx_text_width(right, size, FALSE)
    IN  IF left # << >> /\ right # << >>
        THEN IF left_w + right_w + 18000 <= content_w
             THEN LET s2 == add_text_line(s1, left, size, TRUE, "L", 0)
                      s3 == [s2 EXCEPT !.y = @ + line_h]
                  IN  add_text_line(s3, right, size, FALSE, "R", 0)
             ELSE add_text_line(add_text_line(s1, left, size, TRUE, "L", 0),
                                right, Max2(9500, size - 200), FALSE, "L", 12000)
        ELSE IF left # << >> THEN add_text_line(s1, left, size, TRUE, "L", 0)
        ELSE IF right # << >> THEN add_text_line(s1, right, size, FALSE, "R", 0)
        ELSE s1

\* lines 707-721: a bold label followed by its wrapped value
DrawKvPara(st, item) ==
    LET size == item.size
        label_width == approx_text_width(item.label, size, TRUE)
        value_indent == item.indent + label_width
        max_chars == MaxChars(content_w - value_indent, size)
        wrapped == IF item.value # << >> THEN wrap_pdf_text(item.value, max_chars) ELSE << >>
    IN  IF wrapped # << >>
        THEN AddTextLines(add_text_segments_line(st, << << item.label, TRUE >>,
                                                        << wrapped[1], FALSE >> >>,
                                                 size, item.indent),
                          Tail(wrapped), size, FALSE, value_indent)
        ELSE add_text_segments_line(st, << << item.label, TRUE >> >>, size, item.indent)

\* lines 727-738: a label line and its value under it
DrawKvBlock(st, item) ==
    LET size == item.size
        s1 == add_text_line(st, item.label, size, TRUE, "L", item.indent)
    IN  IF item.value # << >>
        THEN AddTextLines(s1, wrap_pdf_text(item.value, MaxChars(content_w - item.value_indent, size)),
                          size, FALSE, item.value_indent)
        ELSE s1

\* lines 752-760: a bulleted paragraph
BulletPara(st, item, wrapped) ==
    LET bullet_prefix == << "U2022", " " >>
        bullet_prefix_w == approx_text_width(bullet_prefix, item.size, FALSE)
    IN  IF wrapped # << >>
        THEN AddTextLines(add_text_segments_line(st, << << bullet_prefix, FALSE >>,
                                                        << wrapped[1], item.bold >> >>,
                                                 item.size, item.indent),
                          Tail(wrapped), item.size, item.bold, item.indent + bullet_prefix_w)
        ELSE add_text_line(st, bullet_prefix, item.size, FALSE, "L", item.indent)

\* lines 744-763: a wrapped paragraph
DrawPara(st, item) ==
    LET max_chars == MaxChars(content_w - item.indent - (IF item.bullet THEN 10000 ELSE 0),
                              item.size)
        wrapped == wrap_pdf_text(item.text, max_chars)
    IN  IF item.bullet THEN BulletPara(st, item, wrapped)
        ELSE AddTextLines(st, wrapped, item.size, item.bold, item.indent)

\* lines 655-766: the body of the item loop for one item
DrawItem(st, item) ==
    CASE item.type = "spacer" ->
            [ensure_space(st, item.height) EXCEPT !.y = @ - item.height]
      [] item.type = "line" ->
            GapAfter(add_text_line(st, item.text, item.size, item.bold, item.align, item.indent),
                     item)
      [] item.type = "rule" -> GapAfter(add_rule_line(st), item)
      [] item.type = "expmeta" -> GapAfter(DrawExpMeta(st, item), item)
      [] item.type = "kvpara" -> GapAfter(DrawKvPara(st, item), item)
      [] item.type = "kvblock" -> GapAfter(DrawKvBlock(st, item), item)
      [] OTHER -> GapAfter(DrawPara(st, item), item)

-----------------------------------------------------------------------------
(* Values of the variables a specification does not use.                    *)

EmptyData ==
    [name |-> << >>, contact |-> << >>, title |-> << >>, summary |-> << >>,
     experience |-> << >>, skills |-> << >>, skills_raw |-> << >>,
     certifications |-> << >>, education |-> << >>, company |-> << >>]

BulletIdle == text_in = << >> /\ stripped = << >>
ContactIdle == contact_lines = << >> /\ cidx = 0 /\ entries = << >> /\ seen = {}
ParseIdle ==
    /\ lines = << >> /\ i = 0 /\ data = EmptyData
    /\ section = "" /\ buffer = << >> /\ consumed = << >>
PageIdle ==
    /\ metadata_role = << >> /\ items = << >> /\ nitem = 0 /\ page_streams = << >>
    /\ current_cmds = << >> /\ y = 0
NoResult == [kind |-> "none", path |-> << >>, error |-> ""]

IoIdle ==
    /\ source_hint = << >> /\ output_pdf_path = << >>
    /\ env = [is_dir |-> FALSE, fpdf |-> FALSE, reportlab |-> FALSE]
    /\ pdf_path = << >> /\ attempts = << >> /\ logged = << >> /\ result = NoResult

GuiIdle ==
    /\ gui_platform = "desktop" /\ gui_initial = "done" /\ gui_status = "Ready"
    /\ gui_requests = << >>

TextIdle == pdf_text = << >> /\ pdf_replaced = << >> /\ pdf_result = << >>

WrapIdle ==
    /\ wrap_text = << >> /\ wrap_max = 0 /\ wrap_words = << >> /\ wrap_current = << >>
    /\ wrap_lines = << >>

EncIdle ==
    /\ objects = << >> /\ offsets = << >> /\ obj_id = 0 /\ xref_offset = 0
    /\ out = << >> /\ written = << >>

-----------------------------------------------------------------------------
(* clean_bullet_text, statement by statement.                               *)

MaxBulletLen == 4

BulletAlphabet == {"*", "-", "U2022", " ", "a"}

BulletInputs == UNION {[1..n -> BulletAlphabet] : n \in 0..MaxBulletLen}

InitBullet ==
    /\ pc = "clean_start"
    /\ text_in \in BulletInputs
    /\ stripped = << >>
    /\ ContactIdle /\ ParseIdle /\ PageIdle /\ EncIdle /\ IoIdle /\ WrapIdle /\ TextIdle /\ GuiIdle

\* `stripped = str(text).strip()`
CleanStrip ==
    /\ pc = "clean_start"
    /\ stripped' = Strip(text_in)
    /\ pc' = "clean_loop"
    /\ UNCHANGED << text_in, contactVars, parseVars, pageVars, encVars, ioVars, wrapVars, textVars, guiVars >>

\* one iteration of the while loop
CleanDrop ==
    /\ pc = "clean_loop"
    /\ StartsWithGlyph(stripped)
    /\ stripped' = DropGlyph(stripped)
    /\ UNCHANGED << pc, text_in, contactVars, parseVars, pageVars, encVars, ioVars, wrapVars, textVars, guiVars >>

\* `return stripped`
CleanReturn ==
    /\ pc = "clean_loop"
    /\ ~StartsWithGlyph(stripped)
    /\ pc' = "clean_done"
    /\ UNCHANGED << bulletVars, contactVars, parseVars, pageVars, encVars, ioVars, wrapVars, textVars, guiVars >>

NextBullet == CleanStrip \/ CleanDrop \/ CleanReturn

SpecBullet == InitBullet /\ [][NextBullet]_vars

-----------------------------------------------------------------------------
(* build_contact_items, one raw line at a time.                             *)

MaxContactLines == 2

ContactVocab ==
    { Chars("Phone: 555-1234"),
      Chars("phone: 555-1234"),
      Chars("Email: A@x.co, a@x.co"),
      Chars("Email: <a@x.co> [a@x.co]"),
      Chars("EMAIL: mailto:a@x.co"),
      Chars("Email: b@y.org / a@x.co / b@y.org"),
      Chars("Email: none"),
      Chars("Address: Pune"),
      Chars("Address: pune, india"),
      Chars("Address: Pune."),
      Chars("Address: , ,"),
      Chars("Nationality:"),
      Chars("Company Name: Acme"),
      Chars("- Pune"),
      Chars("pune"),
      Chars(" ") }

ContactInputs == UNION {[1..n -> ContactVocab] : n \in 0..MaxContactLines}

InitContact ==
    /\ pc = "contact_loop"
    /\ contact_lines \in ContactInputs
    /\ cidx = 0 /\ entries = << >> /\ seen = {}
    /\ BulletIdle /\ ParseIdle /\ PageIdle /\ EncIdle /\ IoIdle /\ WrapIdle /\ TextIdle /\ GuiIdle

\* one iteration of `for raw in contact_lines`
ContactIter ==
    /\ pc = "contact_loop"
    /\ cidx < Len(contact_lines)
    /\ LET st == ContactStep([entries |-> entries, seen |-> seen], contact_lines[cidx + 1])
       IN  entries' = st.entries /\ seen' = st.seen
    /\ cidx' = cidx + 1
    /\ UNCHANGED << pc, contact_lines, bulletVars, parseVars, pageVars, encVars, ioVars, wrapVars, textVars, guiVars >>

\* `return entries`
ContactReturn ==
    /\ pc = "contact_loop"
    /\ cidx = Len(contact_lines)
    /\ pc' = "contact_done"
    /\ UNCHANGED << contactVars, bulletVars, parseVars, pageVars, encVars, ioVars, wrapVars, textVars, guiVars >>

NextContact == ContactIter \/ ContactReturn

SpecContact == InitContact /\ [][NextContact]_vars

-----------------------------------------------------------------------------
(* parse_resume, phase by phase.  The cursor i is 0-based as in the code,   *)
(* so the line under the cursor is lines[i + 1].                            *)

\* the first index >= k (0-based) of a non-blank line, Len(ls) if none:
\* `while i < len(lines) and not lines[i].strip(): i += 1`
SkipBlank(ls, k) ==
    LET nb == {m \in k..(Len(ls) - 1) : ~IsBlank(ls[m + 1])}
    IN  IF nb = {} THEN Max2(k, Len(ls)) ELSE SetMin(nb)

\* the end of the run of one-character lines that starts at k (0-based):
\* `while j < len(lines) and len(lines[j].strip()) == 1: j += 1`
SingleCharRunEnd(ls, k) ==
    LET stops == {m \in k..(Len(ls) - 1) : Len(Strip(ls[m + 1])) # 1}
    IN  IF stops = {} THEN Max2(k, Len(ls)) ELSE SetMin(stops)

RECURSIVE Concat(_)
Concat(parts) == IF parts = << >> THEN << >> ELSE Head(parts) \o Concat(Tail(parts))

Passed(n, phase, role) == [k \in 1..n |-> [phase |-> phase, role |-> role]]

\* the mutant takes the joined name but leaves the cursor after the first line
NameCursorAfterFirstLine(i0, j) == i0 + 1

\* the cursor after the name: `i = j` for a vertical name, else `i += 1`
NameCursor(i0, j) == IF j > i0 + 1 THEN j ELSE i0 + 1

\* lines 124-142: skip blank lines, take the name
ParseName ==
    /\ pc = "parse_name"
    /\ LET i0 == SkipBlank(lines, i)
       IN  IF i0 < Len(lines)
           THEN LET j == SingleCharRunEnd(lines, i0 + 1)
                    name_chars == [k \in 1..(j - i0) |-> Strip(lines[i0 + k])]
                    i1 == NameCursor(i0, j)
                IN  /\ data' = [data EXCEPT !.name = Concat(name_chars)]
                    /\ i' = i1
                    /\ consumed' = consumed \o Passed(i0 - i, "name", "blank")
                                       \o Passed(1, "name", "name")
                                       \o Passed(i1 - i0 - 1, "name", "name_char")
           ELSE /\ data' = data
                /\ i' = i0
                /\ consumed' = consumed \o Passed(i0 - i, "name", "blank")
    /\ pc' = "parse_contact"
    /\ UNCHANGED << lines, section, buffer, bulletVars, contactVars, pageVars, encVars, ioVars, wrapVars, textVars, guiVars >>

\* `_, _, value = contact_line.partition(':')`
AfterFirstColon(s) ==
    LET colons == {k \in 1..Len(s) : s[k] = ":"}
    IN  IF colons = {} THEN << >> ELSE SubSeq(s, SetMin(colons) + 1, Len(s))

\* lines 144-152: one iteration of the contact loop
ContactScanLine ==
    /\ pc = "parse_contact"
    /\ i < Len(lines) /\ ~IsBlank(lines[i + 1])
    /\ LET contact_line == Strip(lines[i + 1])
           value == AfterFirstColon(contact_line)
           d1 == IF StartsWith(Lower(contact_line), Txt_company_name) /\ value # << >>
                 THEN [data EXCEPT !.company = Strip(value)]
                 ELSE data
       IN  data' = [d1 EXCEPT !.contact = Append(@, contact_line)]
    /\ i' = i + 1
    /\ consumed' = consumed \o Passed(1, "contact", "contact")
    /\ UNCHANGED << pc, lines, section, buffer, bulletVars, contactVars, pageVars, encVars, ioVars, wrapVars, textVars, guiVars >>

\* the mutant adds no blank entry after a nationality line that is the last
RECURSIVE InsertNationalityBlanksNotLast(_, _)
InsertNationalityBlanksNotLast(contact, idx) ==
    IF idx > Len(contact) THEN << >>
    ELSE LET c == contact[idx]
             is_nationality == StartsWith(Lower(Strip(c)), Txt_nationality)
         IN  << c >> \o (IF is_nationality /\ idx < Len(contact) THEN << << >> >> ELSE << >>)
                  \o InsertNationalityBlanksNotLast(contact, idx + 1)

\* lines 155-167: the contact list with a blank entry after each
\* nationality line that is not already followed by a blank one
RECURSIVE InsertNationalityBlanks(_, _)
InsertNationalityBlanks(contact, idx) ==
    IF idx > Len(contact) THEN << >>
    ELSE LET c == contact[idx]
             is_nationality == StartsWith(Lower(Strip(c)), Txt_nationality)
             next_is_blank == idx + 1 <= Len(contact) /\ IsBlank(contact[idx + 1])
         IN  << c >> \o (IF is_nationality /\ ~next_is_blank THEN << << >> >> ELSE << >>)
                  \o InsertNationalityBlanks(contact, idx + 1)

\* lines 153-167: the contact loop ends, the blank entries are inserted
ContactScanEnd ==
    /\ pc = "parse_contact"
    /\ ~(i < Len(lines) /\ ~IsBlank(lines[i + 1]))
    /\ data' = [data EXCEPT !.contact = InsertNationalityBlanks(@, 1)]
    /\ pc' = "parse_title"
    /\ UNCHANGED << lines, i, section, buffer, consumed,
                    bulletVars, contactVars, pageVars, encVars, ioVars, wrapVars, textVars, guiVars >>

\* whether the title test of line 187 takes the line as a title
IsTitleLine(possible_title) ==
    LET key == LineKey(possible_title)
    IN  key \notin KNOWN_SECTION_KEYS /\ ~StartsWith(key, Txt_certificat)

\* lines 182-191: skip blank lines, take a standalone title line
DetectTitle ==
    /\ pc = "parse_title"
    /\ LET i0 == SkipBlank(lines, i)
       IN  IF i0 < Len(lines) /\ IsTitleLine(Strip(lines[i0 + 1]))
           THEN LET i1 == SkipBlank(lines, i0 + 1)
                IN  /\ data' = [data EXCEPT !.title = Strip(lines[i0 + 1])]
                    /\ i' = i1
                    /\ consumed' = consumed \o Passed(i0 - i, "title", "blank")
                                       \o Passed(1, "title", "title")
                                       \o Passed(i1 - i0 - 1, "title", "blank")
           ELSE /\ data' = data
                /\ i' = i0
                /\ consumed' = consumed \o Passed(i0 - i, "title", "blank")
    /\ section' = ""
    /\ buffer' = << >>
    /\ pc' = "parse_scan"
    /\ UNCHANGED << lines, bulletVars, contactVars, pageVars, encVars, ioVars, wrapVars, textVars, guiVars >>

\* lines 276-291: one iteration of the section scan
ScanLine ==
    /\ pc = "parse_scan"
    /\ i < Len(lines)
    /\ LET ln == Strip(lines[i + 1])
           sec == SectionOfKey(LineKey(ln))
       IN  IF sec # ""
           THEN /\ data' = flush_buffer(data, section, buffer)
                /\ buffer' = << >>
                /\ section' = sec
                /\ consumed' = consumed \o Passed(1, "scan", "heading")
           ELSE /\ buffer' = Append(buffer, ln)
                /\ consumed' = consumed \o Passed(1, "scan", "body")
                /\ UNCHANGED << data, section, wrapVars, textVars, guiVars >>
    /\ i' = i + 1
    /\ UNCHANGED << pc, lines, bulletVars, contactVars, pageVars, encVars, ioVars, wrapVars, textVars, guiVars >>

\* lines 292-293: the last flush, `return data`
ScanEnd ==
    /\ pc = "parse_scan"
    /\ i >= Len(lines)
    /\ data' = flush_buffer(data, section, buffer)
    /\ pc' = "parsed"
    /\ UNCHANGED << lines, i, section, buffer, consumed,
                    bulletVars, contactVars, pageVars, encVars, ioVars, wrapVars, textVars, guiVars >>

NextParse == ParseName \/ ContactScanLine \/ ContactScanEnd \/ DetectTitle \/ ScanLine \/ ScanEnd

\* The inputs of the parser: a head (name, contact block, title) followed
\* by up to MaxBodyLines lines of sections, and the two scenarios of the
\* design's testable properties.
MaxBodyLines == 3

ParseHeads ==
    { << >>,
      << Chars(" "), << >> >>,
      << Chars("Jane Doe"), << >> >>,
      << Chars("Jane Doe"), Chars("Phone: 1"), << >>, Chars("Engineer") >>,
      << << >>, Chars("Jane Doe"), Chars("Nationality: X"), Chars("Company Name: Acme"),
         << >>, << >>, Chars("Engineer"), << >> >>,
      << Chars("J"), Chars("A"), Chars(" N "), Chars("Phone: 1"), << >> >>,
      << Chars("Jane Doe"), Chars("Skills"), Chars("x"), << >>, Chars("Education:") >>,
      << Chars("Jane Doe"), << >>, Chars("Skills"), Chars("- a,bC; d"), Chars("Certificates") >> }

BodyVocab ==
    { << >>,
      Chars("Summary"),
      Chars("Experience:"),
      Chars("SKILLS"),
      Chars("Acme"),
      Chars("2020-2022"),
      Chars("- Did X"),
      Chars("* -") }

ScenarioJaneDoe ==
    << Chars("Jane Doe"), Chars("Phone: 555-1234"), << >>, Chars("Software Engineer"),
       Chars("Professional Summary"), Chars("Built things."), Chars("Experience"),
       Chars("Acme Corp"), Chars("2020-2022"), Chars("- Did X"), Chars("- Did Y") >>

ScenarioVerticalName ==
    << Chars("J"), Chars("A"), Chars("N"), Chars("E"),
       Chars("Phone: 555-1234"), Chars("Email: j@x.co"), << >>, Chars("Summary"), Chars("Hi") >>

\* an education line that begins with "Certificat"
ScenarioCertificate ==
    << Chars("Jane Doe"), << >>, Chars("Education"), Chars("BSc 2010"),
       Chars("Certificate in Data Science"), Chars("MSc 2012") >>

\* two nationality lines, the second the last contact line
ScenarioNationalityLast ==
    << Chars("Jane Doe"), Chars("Phone: 1"), Chars("nationality: X"), Chars(" NATIONALITY:"),
       << >>, Chars("Summary"), Chars("Hi") >>

\* three experience blocks: one with a duration, one without (its fourth
\* line holds four digits, its third only glyphs), one led by a glyph
ScenarioExperience ==
    << Chars("Jane Doe"), << >>, Chars("Experience"),
       Chars("Acme"), Chars("2020-2022"), Chars("- Did X"), << >>, Chars(" "),
       Chars("Beta"), Chars("Did Y"), Chars("* -"), Chars("20201 z"), << >>,
       Chars("- Gamma 1999"), Chars("2001"), Chars("x"), Chars("Skills"), Chars("Go") >>

ParseInputs ==
    {h \o b : h \in ParseHeads,
              b \in UNION {[1..n -> BodyVocab] : n \in 0..MaxBodyLines}}
        \cup {ScenarioJaneDoe, ScenarioVerticalName, ScenarioCertificate,
              ScenarioNationalityLast, ScenarioExperience}

ParseStart ==
    /\ i = 0 /\ data = EmptyData /\ section = "" /\ buffer = << >> /\ consumed = << >>

InitParse ==
    /\ pc = "parse_name"
    /\ lines \in ParseInputs
    /\ ParseStart
    /\ BulletIdle /\ ContactIdle /\ PageIdle /\ EncIdle /\ IoIdle /\ WrapIdle /\ TextIdle /\ GuiIdle

SpecParse == InitParse /\ [][NextParse]_vars

-----------------------------------------------------------------------------
(* convert_text_to_pdf: the output path.  A path is the sequence of its     *)
(* components, a file name is a text.                                       *)

\* every maximal run of characters of the set `of` replaced by `by`
\* (`re.sub(r"[...]+", by, s)`)
CollapseRuns(s, of, by) ==
    Join([k \in 1..Len(s) |->
             IF s[k] \notin of THEN << s[k] >>
             ELSE IF k = 1 \/ s[k - 1] \notin of THEN by ELSE << >>],
         << >>)

SpaceChars == {" ", "\t", "\n", "\r", "\f", "U00A0"}

\* str.strip(chars)
StripChars(s, chars) ==
    LET keep == {k \in 1..Len(s) : s[k] \notin chars}
    IN  IF keep = {} THEN << >> ELSE SubSeq(s, SetMin(keep), SetMax(keep))

\* sanitize_component(text, replace_space_with_hyphen=True)
sanitize_component(text) ==
    LET t0 == Strip(text)
        t1 == CollapseRuns(t0, SpaceChars, << " " >>)
        t2 == [k \in 1..Len(t1) |->
                  IF t1[k] \in {"<", ">", ":", "\"", "/", "\\", "|", "?", "*", "_"} THEN " "
                  ELSE t1[k]]
        t3 == Strip(CollapseRuns(t2, SpaceChars, << "-" >>))
        t4 == CollapseRuns(t3, {"-"}, << "-" >>)
    IN  IF t0 = << >> THEN << >> ELSE StripChars(t4, {"-", ".", " "})

\* PurePath.suffix and PurePath.stem of a file name
Suffix(name) ==
    LET dots == {k \in 1..Len(name) : name[k] = "."}
    IN  IF dots # {} /\ 1 < SetMax(dots) /\ SetMax(dots) < Len(name)
        THEN SubSeq(name, SetMax(dots), Len(name)) ELSE << >>

Stem(name) == SubSeq(name, 1, Len(name) - Len(Suffix(name)))

\* _clean_filename_token(token)
clean_filename_token(token) ==
    Strip(CollapseRuns([k \in 1..Len(token) |-> IF token[k] = "_" THEN " " ELSE token[k]],
                       SpaceChars, << " " >>))

NoMetadata == [first |-> << >>, last |-> << >>, role |-> << >>, company |-> << >>]

\* extract_filename_metadata(resume_path) for a file name
extract_filename_metadata(name) ==
    LET parts == SelectSeq(SplitOn(Stem(name), << "-" >>), LAMBDA q : Strip(q) # << >>)
        n == Len(parts)
        RoleOf(from, to) ==
            Join(SelectSeq([k \in 1..(to - from + 1) |-> clean_filename_token(parts[from + k - 1])],
                           LAMBDA q : q # << >>),
                 << " " >>)
    IN  IF n = 0 THEN NoMetadata
        ELSE [first |-> clean_filename_token(parts[1]),
              last |-> IF n >= 2 THEN clean_filename_token(parts[2]) ELSE << >>,
              role |-> IF n >= 4 THEN RoleOf(3, n - 1) ELSE IF n = 3 THEN RoleOf(3, 3) ELSE << >>,
              company |-> IF n >= 4 THEN clean_filename_token(parts[n]) ELSE << >>]

\* lines 1185-1190: the metadata of the call
FileMetadata(hint) == IF hint # << >> THEN extract_filename_metadata(hint) ELSE NoMetadata

\* line 1191
FallbackStem(hint) ==
    IF hint # << >> /\ Stem(hint) # << >> THEN Stem(hint) ELSE Chars("resume")

\* _derive_output_stem(data, file_metadata, fallback_stem)
derive_output_stem(d, meta, fallback_stem) ==
    LET name_value ==
            IF Strip(d.name) # << >> THEN Strip(d.name)
            ELSE Join(SelectSeq(<< Strip(meta.first), Strip(meta.last) >>, LAMBDA q : q # << >>),
                      << " " >>)
        role_value == IF Strip(d.title) # << >> THEN Strip(d.title) ELSE Strip(meta.role)
        company_value == IF Strip(d.company) # << >> THEN Strip(d.company) ELSE Strip(meta.company)
        components == SelectSeq([k \in 1..3 |->
                                    sanitize_component(<< name_value, role_value, company_value >>[k])],
                                LAMBDA q : q # << >>)
    IN  IF components # << >> THEN Join(components, << "-" >>)
        ELSE IF sanitize_component(fallback_stem) # << >> THEN sanitize_component(fallback_stem)
        ELSE fallback_stem

\* Path.cwd(), and the directory of a hint that is a bare file name
Cwd == << Chars("cwd") >>
HintDir == << >>

\* lines 1194-1209: the path the document is rendered to
ResolvePdfPath(output, hint, is_dir, stem) ==
    LET file == stem \o Chars(".pdf")
        parent == SubSeq(output, 1, Len(output) - 1)
    IN  IF output = << >> THEN (IF hint # << >> THEN HintDir ELSE Cwd) \o << file >>
        ELSE IF is_dir THEN output \o << file >>
        ELSE IF Lower(Suffix(output[Len(output)])) = Chars(".pdf") THEN parent \o << file >>
        ELSE IF Suffix(output[Len(output)]) # << >> THEN parent \o << file >>
        ELSE output \o << file >>

-----------------------------------------------------------------------------
(* convert_text_to_pdf: parse_resume, then _render_pdf_builtin.  The        *)
(* object table and the offsets are functions on 0..n, as the lists of the  *)
(* code are.                                                                *)

\* how a call ends
Returned(path) == [kind |-> "path", path |-> path, error |-> ""]
Raised(error) == [kind |-> "error", path |-> << >>, error |-> error]

Attempt(renderer, step, ok) == [renderer |-> renderer, step |-> step, ok |-> ok]

\* lines 1179-1209: the metadata, the file name and the output path
ResolvePath ==
    /\ pc = "parsed"
    /\ pdf_path' = ResolvePdfPath(output_pdf_path, source_hint, env.is_dir,
                                  derive_output_stem(data, FileMetadata(source_hint),
                                                     FallbackStem(source_hint)))
    /\ pc' = "make_dir"
    /\ UNCHANGED << source_hint, output_pdf_path, env, attempts, logged, result,
                    bulletVars, contactVars, parseVars, pageVars, encVars, wrapVars, textVars, guiVars >>

\* lines 1211-1216: the output directory is created, or the call raises;
\* then render_pdf is called, which calls _render_pdf_builtin (line 1012)
MakeOutputDir ==
    /\ pc = "make_dir"
    /\ \E ok \in BOOLEAN :
          IF ok THEN pc' = "render_builtin" /\ result' = result
          ELSE pc' = "failed" /\ result' = Raised("Cannot create output directory")
    /\ UNCHANGED << source_hint, output_pdf_path, env, pdf_path, attempts, logged,
                    bulletVars, contactVars, parseVars, pageVars, encVars, wrapVars, textVars, guiVars >>

\* line 422: creating the directory fails inside the built-in renderer
BuiltinDirFails ==
    /\ pc = "render_builtin"
    /\ attempts' = Append(attempts, Attempt("builtin", "mkdir", FALSE))
    /\ pc' = "builtin_raised"
    /\ UNCHANGED << source_hint, output_pdf_path, env, pdf_path, logged, result,
                    bulletVars, contactVars, parseVars, pageVars, encVars, wrapVars, textVars, guiVars >>

\* lines 421-584: the directory exists, the item list is built, the first
\* page is opened
BuildItems ==
    /\ pc = "render_builtin"
    /\ items' = BuildItemList(data, metadata_role)
    /\ nitem' = 0
    /\ page_streams' = << >>
    /\ current_cmds' = << >>
    /\ y' = page_h - margin_t
    /\ pc' = "render_items"
    /\ UNCHANGED << metadata_role, bulletVars, contactVars, parseVars, encVars, ioVars, wrapVars, textVars, guiVars >>

\* lines 655-766: one iteration of the item loop
RenderItem ==
    /\ pc = "render_items"
    /\ nitem < Len(items)
    /\ LET st == DrawItem([cmds |-> current_cmds, y |-> y, pages |-> page_streams],
                          items[nitem + 1])
       IN  /\ current_cmds' = st.cmds
           /\ y' = st.y
           /\ page_streams' = st.pages
    /\ nitem' = nitem + 1
    /\ UNCHANGED << pc, metadata_role, items, bulletVars, contactVars, parseVars, encVars, ioVars, wrapVars, textVars, guiVars >>

\* lines 768-770: the last page is flushed; a document without a page
\* gets an empty one
FinalFlush ==
    /\ pc = "render_items"
    /\ nitem = Len(items)
    /\ LET st == flush_page([cmds |-> current_cmds, y |-> y, pages |-> page_streams])
       IN  /\ current_cmds' = st.cmds
           /\ y' = st.y
           /\ page_streams' = IF st.pages = << >> THEN << << >> >> ELSE st.pages
    /\ pc' = "alloc_objs"
    /\ UNCHANGED << metadata_role, items, nitem, bulletVars, contactVars, parseVars, encVars, ioVars, wrapVars, textVars, guiVars >>

\* the ids given by alloc_obj(), lines 783-792
catalog_id == 1
pages_id == 2
font_regular_id == 3
font_bold_id == 4
page_id(idx) == 5 + 2 * idx
content_id(idx) == 6 + 2 * idx

\* lines 772-792: the table gets slot 0 and one empty slot per object
AllocObjects ==
    /\ pc = "alloc_objs"
    /\ objects' = [k \in 0..(4 + 2 * Len(page_streams)) |-> << >>]
    /\ pc' = "set_objs"
    /\ UNCHANGED << offsets, obj_id, xref_offset, out, written,
                    bulletVars, contactVars, parseVars, pageVars, ioVars, wrapVars, textVars, guiVars >>

\* lines 800-805
PageObject(idx) ==
    Chars("<< /Type /Page /Parent ") \o Dec(pages_id) \o Chars(" 0 R /MediaBox [0 0 ")
        \o Dec(page_w \div 1000) \o << " " >> \o Dec(page_h \div 1000)
        \o Chars("] /Resources << /Font << /F1 ") \o Dec(font_regular_id)
        \o Chars(" 0 R /F2 ") \o Dec(font_bold_id) \o Chars(" 0 R >> >> /Contents ")
        \o Dec(content_id(idx)) \o Chars(" 0 R >>")

\* the mutant counts the line feed before `endstream` as part of the stream
ContentObjectLengthWithFeed(stream_bytes) ==
    Chars("<< /Length ") \o Dec(Len(stream_bytes) + 1) \o Chars(" >>") \o << "\n" >>
        \o Chars("stream") \o << "\n" >> \o stream_bytes \o << "\n" >> \o Chars("endstream")

\* lines 807-811
ContentObject(stream_bytes) ==
    Chars("<< /Length ") \o Dec(Len(stream_bytes)) \o Chars(" >>") \o << "\n" >>
        \o Chars("stream") \o << "\n" >> \o stream_bytes \o << "\n" >> \o Chars("endstream")

\* the mutant counts the content objects as pages too
PagesObjectCountsAllObjects(npages) ==
    Chars("<< /Type /Pages /Kids [")
        \o Join([k \in 1..npages |-> Dec(page_id(k - 1)) \o Chars(" 0 R")], << " " >>)
        \o Chars("] /Count ") \o Dec(2 * npages) \o Chars(" >>")

\* lines 814-815
PagesObject(npages) ==
    Chars("<< /Type /Pages /Kids [")
        \o Join([k \in 1..npages |-> Dec(page_id(k - 1)) \o Chars(" 0 R")], << " " >>)
        \o Chars("] /Count ") \o Dec(npages) \o Chars(" >>")

FontObject(base_font) ==
    Chars("<< /Type /Font /Subtype /Type1 /BaseFont /") \o Chars(base_font)
        \o Chars(" /Encoding /WinAnsiEncoding >>")

\* the mutant gives the content stream the first id of each pair
SetObjectsContentFirst ==
    /\ pc = "set_objs"
    /\ objects' =
          [k \in DOMAIN objects |->
              CASE k = 0 -> << >>
                [] k = catalog_id ->
                      Chars("<< /Type /Catalog /Pages ") \o Dec(pages_id) \o Chars(" 0 R >>")
                [] k = pages_id -> PagesObject(Len(page_streams))
                [] k = font_regular_id -> FontObject("Helvetica")
                [] k = font_bold_id -> FontObject("Helvetica-Bold")
                [] k >= 5 /\ k % 2 = 1 -> ContentObject(page_streams[(k - 5) \div 2 + 1])
                [] OTHER -> PageObject((k - 6) \div 2)]
    /\ pc' = "write_header"
    /\ UNCHANGED << offsets, obj_id, xref_offset, out, written,
                    bulletVars, contactVars, parseVars, pageVars, ioVars, wrapVars, textVars, guiVars >>

\* lines 794-816: every slot but slot 0 is set
SetObjects ==
    /\ pc = "set_objs"
    /\ objects' =
          [k \in DOMAIN objects |->
              CASE k = 0 -> << >>
                [] k = catalog_id ->
                      Chars("<< /Type /Catalog /Pages ") \o Dec(pages_id) \o Chars(" 0 R >>")
                [] k = pages_id -> PagesObject(Len(page_streams))
                [] k = font_regular_id -> FontObject("Helvetica")
                [] k = font_bold_id -> FontObject("Helvetica-Bold")
                [] k >= 5 /\ k % 2 = 1 -> PageObject((k - 5) \div 2)
                [] OTHER -> ContentObject(page_streams[(k - 6) \div 2 + 1])]
    /\ pc' = "write_header"
    /\ UNCHANGED << offsets, obj_id, xref_offset, out, written,
                    bulletVars, contactVars, parseVars, pageVars, ioVars, wrapVars, textVars, guiVars >>

\* the mutant streams: it writes the file as soon as the header is in the
\* buffer, and again at the end
WriteHeaderAndFile ==
    /\ pc = "write_header"
    /\ out' = Chars("%PDF-1.4") \o << "\n", "%", "xE2", "xE3", "xCF", "xD3", "\n" >>
    /\ offsets' = [k \in DOMAIN objects |-> 0]
    /\ obj_id' = 1
    /\ written' = Append(written, out')
    /\ pc' = "write_objs"
    /\ UNCHANGED << objects, xref_offset,
                    bulletVars, contactVars, parseVars, pageVars, ioVars, wrapVars, textVars, guiVars >>

\* lines 818-820: the header, the offsets all zero
WriteHeader ==
    /\ pc = "write_header"
    /\ out' = Chars("%PDF-1.4") \o << "\n", "%", "xE2", "xE3", "xCF", "xD3", "\n" >>
    /\ offsets' = [k \in DOMAIN objects |-> 0]
    /\ obj_id' = 1
    /\ pc' = "write_objs"
    /\ UNCHANGED << objects, xref_offset, written,
                    bulletVars, contactVars, parseVars, pageVars, ioVars, wrapVars, textVars, guiVars >>

\* the mutant takes the offset once the "N 0 obj" line is written
ObjectOffsetAfterHeader(buf, id) == Len(buf) + Len(Dec(id)) + 7

\* `offsets[obj_id] = len(out)`
ObjectOffset(buf, id) == Len(buf)

\* lines 822-826: one iteration of the loop that writes the objects
WriteObject ==
    /\ pc = "write_objs"
    /\ obj_id < Cardinality(DOMAIN objects)
    /\ offsets' = [offsets EXCEPT ![obj_id] = ObjectOffset(out, obj_id)]
    /\ out' = out \o Dec(obj_id) \o Chars(" 0 obj") \o << "\n" >> \o objects[obj_id]
                  \o << "\n" >> \o Chars("endobj") \o << "\n" >>
    /\ obj_id' = obj_id + 1
    /\ UNCHANGED << pc, objects, xref_offset, written,
                    bulletVars, contactVars, parseVars, pageVars, ioVars, wrapVars, textVars, guiVars >>

\* f"{n:010d}"
Pad10(n) == [k \in 1..(10 - Len(Dec(n))) |-> "0"] \o Dec(n)

\* one entry of the table, line 832
XrefEntry(offset) == Pad10(offset) \o Chars(" 00000 n ") \o << "\n" >>

ConcatAll(parts) == Join(parts, << >>)

\* lines 828-832: the cross-reference table
WriteXref ==
    /\ pc = "write_objs"
    /\ obj_id >= Cardinality(DOMAIN objects)
    /\ xref_offset' = Len(out)
    /\ out' = out \o Chars("xref") \o << "\n" >> \o Chars("0 ")
                  \o Dec(Cardinality(DOMAIN objects)) \o << "\n" >>
                  \o Chars("0000000000 65535 f ") \o << "\n" >>
                  \o ConcatAll([k \in 1..(Cardinality(DOMAIN objects) - 1) |->
                                   XrefEntry(offsets[k])])
    /\ pc' = "write_trailer"
    /\ UNCHANGED << objects, offsets, obj_id, written,
                    bulletVars, contactVars, parseVars, pageVars, ioVars, wrapVars, textVars, guiVars >>

\* lines 833-838: the trailer
WriteTrailer ==
    /\ pc = "write_trailer"
    /\ out' = out \o Chars("trailer") \o << "\n" >> \o Chars("<< /Size ")
                  \o Dec(Cardinality(DOMAIN objects)) \o Chars(" /Root ") \o Dec(catalog_id)
                  \o Chars(" 0 R >>") \o << "\n" >> \o Chars("startxref") \o << "\n" >>
                  \o Dec(xref_offset) \o << "\n" >> \o Chars("%%EOF") \o << "\n" >>
    /\ pc' = "write_file"
    /\ UNCHANGED << objects, offsets, obj_id, xref_offset, written,
                    bulletVars, contactVars, parseVars, pageVars, ioVars, wrapVars, textVars, guiVars >>

\* lines 840-841: `pdf_path.write_bytes(out)` succeeds and the path is
\* returned, through render_pdf (line 1012), by convert_text_to_pdf (line 1216)
WriteFile ==
    /\ pc = "write_file"
    /\ written' = Append(written, out)
    /\ attempts' = Append(attempts, Attempt("builtin", "write", TRUE))
    /\ result' = Returned(pdf_path)
    /\ pc' = "rendered"
    /\ UNCHANGED << objects, offsets, obj_id, xref_offset, out,
                    source_hint, output_pdf_path, env, pdf_path, logged,
                    bulletVars, contactVars, parseVars, pageVars, wrapVars, textVars, guiVars >>

\* line 840: `pdf_path.write_bytes(out)` raises
WriteFails ==
    /\ pc = "write_file"
    /\ attempts' = Append(attempts, Attempt("builtin", "write", FALSE))
    /\ pc' = "builtin_raised"
    /\ UNCHANGED << source_hint, output_pdf_path, env, pdf_path, logged, result,
                    bulletVars, contactVars, parseVars, pageVars, encVars, wrapVars, textVars, guiVars >>

\* lines 1013-1014: render_pdf catches what the built-in renderer raised
\* and prints it
CatchAndLog ==
    /\ pc = "builtin_raised"
    /\ logged' = Append(logged, "Built-in PDF renderer failed, trying library fallback")
    /\ pc' = "fallback"
    /\ UNCHANGED << source_hint, output_pdf_path, env, pdf_path, attempts, result,
                    bulletVars, contactVars, parseVars, pageVars, encVars, wrapVars, textVars, guiVars >>

\* a library renderer creates the directory and writes the file, or raises
LibraryRender(renderer) ==
    \E ok \in BOOLEAN :
        /\ attempts' = Append(attempts, Attempt(renderer, "write", ok))
        /\ IF ok THEN pc' = "fallback_done" /\ result' = Returned(pdf_path)
           ELSE pc' = "failed" /\ result' = Raised("OSError")

\* lines 1015-1016: `return _render_pdf_fpdf(...)` (lines 844-946)
FallbackFpdf ==
    /\ pc = "fallback"
    /\ env.fpdf
    /\ LibraryRender("fpdf")
    /\ UNCHANGED << source_hint, output_pdf_path, env, pdf_path, logged,
                    bulletVars, contactVars, parseVars, pageVars, encVars, wrapVars, textVars, guiVars >>

\* lines 1017-1018: neither library is installed
FallbackUnavailable ==
    /\ pc = "fallback"
    /\ ~env.fpdf /\ ~env.reportlab
    /\ result' = Raised("reportlab is not installed; PDF generation is unavailable.")
    /\ pc' = "failed"
    /\ UNCHANGED << source_hint, output_pdf_path, env, pdf_path, attempts, logged,
                    bulletVars, contactVars, parseVars, pageVars, encVars, wrapVars, textVars, guiVars >>

\* lines 1020-1168: the reportlab document is built and written
FallbackReportlab ==
    /\ pc = "fallback"
    /\ ~env.fpdf /\ env.reportlab
    /\ LibraryRender("reportlab")
    /\ UNCHANGED << source_hint, output_pdf_path, env, pdf_path, logged,
                    bulletVars, contactVars, parseVars, pageVars, encVars, wrapVars, textVars, guiVars >>

Next ==
    \/ NextParse
    \/ ResolvePath \/ MakeOutputDir \/ BuiltinDirFails
    \/ BuildItems \/ RenderItem \/ FinalFlush
    \/ AllocObjects \/ SetObjects \/ WriteHeader \/ WriteObject
    \/ WriteXref \/ WriteTrailer \/ WriteFile \/ WriteFails
    \/ CatchAndLog \/ FallbackFpdf \/ FallbackUnavailable \/ FallbackReportlab

\* The documents the whole pipeline is run on: the empty document, the
\* scenario of the design with and without a role from the file name, a
\* document with every kind of item and characters that are replaced or
\* escaped, and documents long enough to wrap lines and to break pages.
MaxLongLines == 56
MaxWords == 30

ScenarioRich ==
    << Chars("Ann (Li) ") \o << "U4E2D" >>,
       Chars("Email: a@x.co"),
       Chars("LinkedIn: in/ann"),
       Chars("Address: 1 Main\\St"),
       << >>,
       Chars("Lead ") \o << "U2013" >> \o Chars(" Dev"),
       Chars("Summary"),
       << "U2022" >> \o Chars(" ") \o << "U201C" >> \o Chars("Fast") \o << "U201D" >> \o Chars(" & (safe)"),
       Chars("Experience"),
       Chars("2019 - 2020"),
       Chars("- *"),
       << "U2022" >> \o Chars(" Ran ") \o << "U2014" >> \o Chars(" x"),
       << >>,
       Chars("Beta"),
       Chars("- Only") \o << "U00A0" >> \o Chars("bullet"),
       Chars("Skills"),
       Chars("Languages: Go, C"),
       Chars("Teamwork"),
       Chars("Certificates"),
       Chars("- AWS"),
       Chars("Education"),
       Chars("BSc 2010") >>

LongLine(n) == Join([k \in 1..n |-> Chars("word")], << " " >>)

ScenarioWrapped ==
    << Chars("Wrap Doc"), Chars("Address: ") \o LongLine(MaxWords), << >>,
       Chars("Summary"), LongLine(MaxWords),
       Chars("Experience"), LongLine(MaxWords \div 2), Chars("2020 ") \o LongLine(MaxWords \div 2),
       Chars("- ") \o LongLine(MaxWords),
       Chars("Skills"), LongLine(MaxWords) \o Chars(": ") \o LongLine(MaxWords) >>

ScenarioLong ==
    << Chars("Long Doc"), << >>, Chars("Experience"), Chars("Acme"), Chars("2020") >>
        \o [k \in 1..MaxLongLines |-> Chars("- b")]
        \o << Chars("Education") >> \o [k \in 1..MaxLongLines |-> Chars("e")]

\* an experience block of glyphs only, which leaves an entry without header,
\* duration and bullets, before the next section
ScenarioEmptyEntry ==
    << Chars("Em Doc"), << >>, Chars("Experience"), Chars("Acme"), Chars("- x"), << >>,
       Chars("* -"), << >>, Chars("Skills"), Chars("Go") >>

Env(is_dir, fpdf, reportlab) == [is_dir |-> is_dir, fpdf |-> fpdf, reportlab |-> reportlab]

Call(doc, hint, output, e) == [lines |-> doc, hint |-> hint, output |-> output, env |-> e]

\* the calls: each document with a file-name hint or none, an output path
\* (a .pdf file, another file, a directory, none) and the libraries found
RenderInputs ==
    { Call(<< >>, << >>, << Chars("out"), Chars("resume.pdf") >>, Env(FALSE, FALSE, FALSE)),
      Call(<< Chars(" "), << >> >>, Chars("a-b-Engineer.pdf"),
           << Chars("out"), Chars("cv.pdf") >>, Env(FALSE, TRUE, FALSE)),
      Call(ScenarioJaneDoe, << >>, << Chars("out"), Chars("resume.pdf") >>,
           Env(FALSE, FALSE, FALSE)),
      Call(ScenarioJaneDoe, Chars("a-b-Engineer.pdf"), << >>, Env(FALSE, FALSE, TRUE)),
      Call(ScenarioJaneDoe, Chars("a_b-c-software-engineer-Beta.pdf"), << Chars("out") >>,
           Env(FALSE, FALSE, FALSE)),
      Call(ScenarioVerticalName, << >>, << Chars("out.pdf") >>, Env(TRUE, TRUE, TRUE)),
      Call(ScenarioRich, << >>, << Chars("out"), Chars("cv.txt") >>, Env(FALSE, FALSE, FALSE)),
      Call(ScenarioWrapped, Chars("cv.pdf"), << Chars("out"), Chars("cv.pdf") >>,
           Env(FALSE, FALSE, FALSE)),
      Call(ScenarioLong, << >>, << Chars("out"), Chars("Report.PDF") >>,
           Env(FALSE, FALSE, FALSE)),
      Call(ScenarioEmptyEntry, << >>, << Chars("out"), Chars("em.pdf") >>,
           Env(FALSE, FALSE, FALSE)) }

Init ==
    /\ pc = "parse_name"
    /\ \E inp \in RenderInputs :
          /\ lines = inp.lines /\ source_hint = inp.hint /\ output_pdf_path = inp.output
          /\ env = inp.env /\ metadata_role = FileMetadata(inp.hint).role
    /\ ParseStart
    /\ items = << >> /\ nitem = 0 /\ page_streams = << >> /\ current_cmds = << >> /\ y = 0
    /\ pdf_path = << >> /\ attempts = << >> /\ logged = << >> /\ result = NoResult
    /\ BulletIdle /\ ContactIdle /\ EncIdle /\ WrapIdle /\ TextIdle /\ GuiIdle

Spec == Init /\ [][Next]_vars

-----------------------------------------------------------------------------
(* _wrap_pdf_text, statement by statement.                                  *)

\* lines 400-407: the text is made safe and stripped; an empty text
\* returns [""]; otherwise the first word opens the first line
WrapStart ==
    /\ pc = "wrap_start"
    /\ LET text == Strip(pdf_safe_text(wrap_text))
       IN  IF text = << >>
           THEN /\ wrap_lines' = << << >> >>
                /\ pc' = "wrap_done"
                /\ UNCHANGED << wrap_words, wrap_current >>
           ELSE /\ wrap_words' = Tail(Words(text))
                /\ wrap_current' = Head(Words(text))
                /\ wrap_lines' = << >>
                /\ pc' = "wrap_loop"
    /\ UNCHANGED << wrap_text, wrap_max, bulletVars, contactVars, parseVars, pageVars,
                    encVars, ioVars, textVars, guiVars >>

\* lines 408-414: one iteration of the for loop
WrapWord ==
    /\ pc = "wrap_loop"
    /\ wrap_words # << >>
    /\ LET word == Head(wrap_words)
           candidate == wrap_current \o << " " >> \o word
       IN  IF Fits(candidate, wrap_max)
           THEN wrap_current' = candidate /\ wrap_lines' = wrap_lines
           ELSE wrap_lines' = Append(wrap_lines, wrap_current) /\ wrap_current' = word
    /\ wrap_words' = Tail(wrap_words)
    /\ UNCHANGED << pc, wrap_text, wrap_max, bulletVars, contactVars, parseVars, pageVars,
                    encVars, ioVars, textVars, guiVars >>

\* lines 415-416: the last line is added and the list returned
WrapReturn ==
    /\ pc = "wrap_loop"
    /\ wrap_words = << >>
    /\ wrap_lines' = Append(wrap_lines, wrap_current)
    /\ pc' = "wrap_done"
    /\ UNCHANGED << wrap_text, wrap_max, wrap_words, wrap_current, bulletVars, contactVars,
                    parseVars, pageVars, encVars, ioVars, textVars, guiVars >>

MaxWrapWords == 4

WrapVocab == {Chars("a"), Chars("bb"), Chars("dddddd"), << "U4E2D" >> \o Chars("-e")}

\* texts with blanks of other kinds than one space between the words
WrapOddTexts ==
    { Chars("  "), Chars(" a  bb "), Chars("a") \o << "U00A0" >> \o Chars("bb"),
      Chars("a") \o << "\t" >> \o Chars("dddddddddddddddddddddddd bb"),
      Chars("(x) ") \o << "U2022", "U2013" >> \o Chars(" y\\z") }

WrapTexts ==
    {Join(ws, << " " >>) : ws \in UNION {[1..n -> WrapVocab] : n \in 0..MaxWrapWords}}
        \cup WrapOddTexts

\* the widths: narrower than a word, a few words wide, and the least
\* width the renderer asks for
WrapWidths == {3, 5, 20}

InitWrap ==
    /\ pc = "wrap_start"
    /\ wrap_text \in WrapTexts
    /\ wrap_max \in WrapWidths
    /\ wrap_words = << >> /\ wrap_current = << >> /\ wrap_lines = << >>
    /\ BulletIdle /\ ContactIdle /\ ParseIdle /\ PageIdle /\ EncIdle /\ IoIdle /\ TextIdle /\ GuiIdle

NextWrap == WrapStart \/ WrapWord \/ WrapReturn

SpecWrap == InitWrap /\ [][NextWrap]_vars

-----------------------------------------------------------------------------
(* _pdf_safe_text and _pdf_escape_text, statement by statement.             *)

MaxTextLen == 3

\* ASCII letters and marks, a line feed (an element of a list of lines may
\* hold one: line 1174 takes a list as it is), the characters of the
\* replacement table, the characters _pdf_escape_text escapes, and one
\* character cp1252 lacks
TextAlphabet ==
    {"a", "-", "\n", "\\", "(", ")", "U2013", "U2014", "U2018", "U2019", "U201C", "U201D",
     "U2022", "U00A0", "U4E2D"}

TextInputs == UNION {[1..n -> TextAlphabet] : n \in 0..MaxTextLen}

InitText ==
    /\ pc = "safe_start"
    /\ pdf_text \in TextInputs
    /\ pdf_replaced = << >> /\ pdf_result = << >>
    /\ BulletIdle /\ ContactIdle /\ ParseIdle /\ PageIdle /\ EncIdle /\ IoIdle /\ WrapIdle /\ GuiIdle

\* lines 378-389: the loop over `replacements`
SafeReplace ==
    /\ pc = "safe_start"
    /\ pdf_replaced' = [k \in 1..Len(pdf_text) |-> ReplaceChar(pdf_text[k])]
    /\ pc' = "safe_encode"
    /\ UNCHANGED << pdf_text, pdf_result, bulletVars, contactVars, parseVars, pageVars,
                    encVars, ioVars, wrapVars, guiVars >>

\* line 390: `text.encode("cp1252", errors="replace").decode("cp1252")`
SafeEncode ==
    /\ pc = "safe_encode"
    /\ pdf_result' = Decode(Encode(pdf_replaced))
    /\ pc' = "safe_done"
    /\ UNCHANGED << pdf_text, pdf_replaced, bulletVars, contactVars, parseVars, pageVars,
                    encVars, ioVars, wrapVars, guiVars >>

\* line 395 of _pdf_escape_text, applied to the result of _pdf_safe_text
EscapeText ==
    /\ pc = "safe_done"
    /\ pdf_result' = EscapeChars(pdf_result)
    /\ pc' = "escape_done"
    /\ UNCHANGED << pdf_text, pdf_replaced, bulletVars, contactVars, parseVars, pageVars,
                    encVars, ioVars, wrapVars, guiVars >>

\* line 618 of add_text_line (line 636 of add_text_segments_line): the
\* text-show operator `f"({safe}) Tj"`
ShowText ==
    /\ pc = "escape_done"
    /\ pdf_result' = << "(" >> \o pdf_result \o Chars(") Tj")
    /\ pc' = "shown"
    /\ UNCHANGED << pdf_text, pdf_replaced, bulletVars, contactVars, parseVars, pageVars,
                    encVars, ioVars, wrapVars, guiVars >>

NextText == SafeReplace \/ SafeEncode \/ EscapeText \/ ShowText

SpecText == InitText /\ [][NextText]_vars

-----------------------------------------------------------------------------
(* main.py: the Generate PDF flow of ResumePdfApp.  Kivy runs every        *)
(* handler and every Clock callback to its end on the one UI thread, so    *)
(* each is one action.                                                      *)

MaxRequests == 2

\* how ensure_storage_permission (lines 256-284) answers: at once with
\* True (not Android, SDK >= 29, or no permissions module), or, on an
\* older Android, at once when nothing is missing and else through
\* request_permissions
GuiPlatforms == {"desktop", "android29", "android_legacy"}

Request(empty, stage, granted) == [empty |-> empty, stage |-> stage, granted |-> granted]

\* the mutant goes on to generate whatever the permission callback delivers
after_permissionIgnoresDenial(granted) ==
    [status |-> "Generating PDF...", stage |-> "scheduled"]

\* _after_permission(granted, ...), lines 231-236: the status it sets and
\* whether it schedules generate_pdf
after_permission(granted) ==
    IF ~granted THEN [status |-> "Failed - Storage permission denied.", stage |-> "denied"]
    ELSE [status |-> "Generating PDF...", stage |-> "scheduled"]

InitGui ==
    /\ pc = "gui"
    /\ gui_platform \in GuiPlatforms
    /\ gui_requests = << >>
    \* on_start, lines 89-91, and the check it makes
    /\ \/ /\ gui_initial = "done" /\ gui_status = "Ready"
       \/ /\ gui_platform = "android_legacy"
          /\ gui_initial = "asked" /\ gui_status = "Checking permissions..."
    /\ BulletIdle /\ ContactIdle /\ ParseIdle /\ PageIdle /\ EncIdle /\ IoIdle /\ WrapIdle
    /\ TextIdle

\* handle_permission_result of the check on_start made (lines 280-282)
InitialPermissionResult ==
    /\ gui_initial = "asked"
    /\ \E granted \in BOOLEAN :
          gui_initial' = IF granted THEN "answered_granted" ELSE "answered_denied"
    /\ UNCHANGED << pc, gui_platform, gui_status, gui_requests, bulletVars, contactVars,
                    parseVars, pageVars, encVars, ioVars, wrapVars, textVars >>

\* _on_initial_permission_check, lines 94-101
InitialPermissionCheck ==
    /\ gui_initial \in {"answered_granted", "answered_denied"}
    /\ gui_status' = IF gui_initial = "answered_granted" THEN "Ready"
                     ELSE "Storage permission denied. You can still retry on Generate PDF."
    /\ gui_initial' = "done"
    /\ UNCHANGED << pc, gui_platform, gui_requests, bulletVars, contactVars,
                    parseVars, pageVars, encVars, ioVars, wrapVars, textVars >>

\* on_generate_pdf, lines 218-229, with the part of
\* ensure_storage_permission that runs in the same call
OnGeneratePdf ==
    /\ pc = "gui"
    /\ Len(gui_requests) < MaxRequests
    /\ \E empty, missing \in BOOLEAN :
          IF empty
          THEN /\ gui_status' = "Failed - Resume text is empty."
               /\ gui_requests' = Append(gui_requests, Request(TRUE, "rejected", "none"))
          ELSE IF gui_platform = "android_legacy" /\ missing
          THEN /\ gui_status' = "Checking storage permission..."
               /\ gui_requests' = Append(gui_requests, Request(FALSE, "asked", "none"))
          ELSE /\ gui_status' = after_permission(TRUE).status
               /\ gui_requests' =
                     Append(gui_requests, Request(FALSE, after_permission(TRUE).stage, "yes"))
    /\ UNCHANGED << pc, gui_platform, gui_initial, bulletVars, contactVars,
                    parseVars, pageVars, encVars, ioVars, wrapVars, textVars >>

\* handle_permission_result, lines 280-282: the answer is scheduled
PermissionResult(k) ==
    /\ k \in 1..Len(gui_requests)
    /\ gui_requests[k].stage = "asked"
    /\ \E granted \in BOOLEAN :
          gui_requests' = [gui_requests EXCEPT ![k].stage = "answered",
                                               ![k].granted = IF granted THEN "yes" ELSE "no"]
    /\ UNCHANGED << pc, gui_platform, gui_initial, gui_status, bulletVars, contactVars,
                    parseVars, pageVars, encVars, ioVars, wrapVars, textVars >>

\* the Clock runs the scheduled callback: _after_permission, lines 231-236
AfterPermission(k) ==
    /\ k \in 1..Len(gui_requests)
    /\ gui_requests[k].stage = "answered"
    /\ LET r == after_permission(gui_requests[k].granted = "yes")
       IN  /\ gui_status' = r.status
           /\ gui_requests' = [gui_requests EXCEPT ![k].stage = r.stage]
    /\ UNCHANGED << pc, gui_platform, gui_initial, bulletVars, contactVars,
                    parseVars, pageVars, encVars, ioVars, wrapVars, textVars >>

\* the Clock runs generate_pdf, lines 238-254: the conversion returns a
\* path or raises
GeneratePdf(k) ==
    /\ k \in 1..Len(gui_requests)
    /\ gui_requests[k].stage = "scheduled"
    /\ \E ok \in BOOLEAN :
          gui_status' = IF ok THEN "Success - Saved to path" ELSE "Failed - error"
    /\ gui_requests' = [gui_requests EXCEPT ![k].stage = "generated"]
    /\ UNCHANGED << pc, gui_platform, gui_initial, bulletVars, contactVars,
                    parseVars, pageVars, encVars, ioVars, wrapVars, textVars >>

\* on_clear, lines 286-289
OnClear ==
    /\ pc = "gui"
    /\ gui_status' = "Cleared."
    /\ UNCHANGED << pc, gui_platform, gui_initial, gui_requests, bulletVars, contactVars,
                    parseVars, pageVars, encVars, ioVars, wrapVars, textVars >>

NextGui ==
    \/ InitialPermissionResult \/ InitialPermissionCheck
    \/ OnGeneratePdf \/ OnClear
    \/ \E k \in 1..MaxRequests : PermissionResult(k) \/ AfterPermission(k) \/ GeneratePdf(k)

SpecGui == InitGui /\ [][NextGui]_vars

\* what Clock.schedule_once(..., 0) schedules runs on a later frame; a
\* permission dialog may stay unanswered and a button unpressed
SpecGuiFair ==
    /\ SpecGui
    /\ \A k \in 1..MaxRequests : WF_vars(AfterPermission(k)) /\ WF_vars(GeneratePdf(k))

-----------------------------------------------------------------------------
(* The paginator of _render_pdf_builtin on item lists given directly: the  *)
(* item loop of lines 655-766 and the flush of line 768.  Every list       *)
(* begins with the name line that line 511 puts first.                     *)

NameLine == line_item(Chars("Candidate Name"), 22000, TRUE, "C", 0, 3000)

Repeat(x, n) == [k \in 1..n |-> x]

\* a text line whose height exceeds the usable height of a page
HugeSize == 600000

\* a list whose last line ends exactly on the bottom margin, followed by
\* a line that no longer fits: 12 headings, 18 + 2 spacers, 2 body lines
PaginateBoundary ==
    << NameLine >>
      \o Repeat(line_item(Chars("HEAD"), 11500, TRUE, "L", 0, 0), 12)
      \o Repeat(spacer_item(28000), 18) \o Repeat(spacer_item(6000), 2)
      \o Repeat(line_item(Chars("body"), 10000, FALSE, "L", 0, 0), 3)
      \o << rule_item(0), line_item(Chars("tail"), 10000, FALSE, "R", 12000, 0) >>

\* a line that can never fit, then spacers that flush a page with no commands
PaginateOversized ==
    << NameLine, line_item(Chars("huge"), HugeSize, FALSE, "L", 0, 0),
       line_item(Chars("next"), 10000, FALSE, "L", 0, 0), rule_item(0),
       spacer_item(700000), spacer_item(700000), spacer_item(700000),
       line_item(Chars("last"), 10000, FALSE, "L", 0, 0) >>

\* the list ends with a spacer that flushes: the last page has no commands
PaginateEndsFlushed == << NameLine, spacer_item(700000), spacer_item(700000) >>

\* sixty-six section-like groups of the layout's items over two pages
PaginateLayout ==
    << NameLine, spacer_item(28000) >>
      \o Repeat(line_item(Chars("SKILLS"), 11500, TRUE, "L", 0, 2000), 22)
      \o Repeat(rule_item(6000), 22)
      \o Repeat(para_item(Chars("one two"), 10000, FALSE, 12000, TRUE, 800), 22)

\* experience entries: one whose header and duration share a line, one
\* whose duration drops beneath, a header alone, a duration alone, then a
\* spacer that leaves room for one more line only and two entries again
LongHeader == Chars("Senior Principal Staff Software Engineering Manager at Acme International Corporation Ltd")

LongDuration == Chars("2020-2022 (two years)")

PaginateEntries ==
    << NameLine,
       expmeta_item(Chars("Acme Corp"), Chars("2020-2022"), 10200, 2000),
       expmeta_item(LongHeader, LongDuration, 10200, 2000),
       expmeta_item(Chars("Acme Corp"), << >>, 10200, 2000),
       expmeta_item(<< >>, Chars("2019"), 10200, 2000),
       spacer_item(630000),
       expmeta_item(LongHeader, LongDuration, 10200, 2000),
       spacer_item(745000),
       expmeta_item(Chars("Beta Ltd"), Chars("2018"), 10200, 2000) >>

PaginateInputs ==
    { PaginateBoundary, PaginateOversized, PaginateEndsFlushed, PaginateLayout,
      PaginateEntries }

InitPaginate ==
    /\ pc = "render_items"
    /\ items \in PaginateInputs
    /\ nitem = 0 /\ page_streams = << >> /\ current_cmds = << >> /\ y = page_h - margin_t
    /\ metadata_role = << >>
    /\ BulletIdle /\ ContactIdle /\ ParseIdle /\ EncIdle /\ IoIdle /\ WrapIdle /\ TextIdle /\ GuiIdle

NextPaginate == RenderItem \/ FinalFlush

SpecPaginate == InitPaginate /\ [][NextPaginate]_vars

-----------------------------------------------------------------------------
(* Properties of clean_bullet_text and build_contact_items.                 *)

\* C4: when clean_bullet_text returns, its result starts neither with a
\* bullet glyph nor with whitespace, whatever mixture of glyphs and
\* whitespace the argument started with, and cleaning the result again
\* gives the result back.
C4_BulletStrippingExhaustive ==
    pc = "clean_done" =>
        /\ stripped # << >> => stripped[1] \notin {"*", "-", "U2022"} /\ ~IsSpace(stripped[1])
        /\ clean_bullet_text(stripped) = stripped

C4_Witness ==
    /\ pc = "clean_done"
    /\ text_in = << "*", " ", "U2022", "a" >>
    /\ stripped = << "a" >>

\* the tokens of an email fact's value, which the code joins with " / "
EmailTokens(value) == SplitOn(value, << " ", "/", " " >>)

\* C3: in every email fact returned, no two tokens of the value are the
\* same address up to letter case (one canonical form per address).
C3_EmailOneCanonicalForm ==
    pc = "contact_done" =>
        \A n \in 1..Len(entries) :
            entries[n].label_key = Chars("email") =>
                LET toks == EmailTokens(entries[n].value)
                IN  \A a, b \in 1..Len(toks) : a < b => Lower(toks[a]) # Lower(toks[b])

\* the pair the facts are unique by
FactPair(e) == << e.label_key, Lower(e.value) >>

\* the input positions whose line yields a fact with a non-empty value
YieldingLines == {j \in 1..Len(contact_lines) :
                    /\ ContactCandidate(contact_lines[j]) # << >>
                    /\ ContactCandidate(contact_lines[j])[1].value # << >>}

\* the input position a returned fact comes from: the first line yielding its pair
FirstLineOf(e) ==
    SetMin({j \in YieldingLines : FactPair(ContactCandidate(contact_lines[j])[1]) = FactPair(e)})

\* C9: the facts returned have pairwise distinct (label_key, lowercased
\* value) pairs and non-empty values; each is the fact of the first input
\* line yielding its pair, the facts are in the order of those lines, and
\* every yielding line's pair is among them.
C9_ContactFactsUniqueInFirstSeenOrder ==
    pc = "contact_done" =>
        /\ \A a, b \in 1..Len(entries) : a < b => FactPair(entries[a]) # FactPair(entries[b])
        /\ \A a \in 1..Len(entries) : entries[a].value # << >>
        /\ \A a \in 1..Len(entries) :
              /\ \E j \in YieldingLines : FactPair(ContactCandidate(contact_lines[j])[1]) = FactPair(entries[a])
              /\ entries[a] = ContactCandidate(contact_lines[FirstLineOf(entries[a])])[1]
        /\ \A a, b \in 1..Len(entries) : a < b => FirstLineOf(entries[a]) < FirstLineOf(entries[b])
        /\ \A j \in YieldingLines :
              \E a \in 1..Len(entries) : FactPair(entries[a]) = FactPair(ContactCandidate(contact_lines[j])[1])

C9_Witness ==
    /\ pc = "contact_done"
    /\ contact_lines = << Chars("Address: Pune"), Chars("Address: pune, india") >>
    /\ Len(entries) = 1
    /\ entries[1].value = Chars("Pune, India")

-----------------------------------------------------------------------------
(* Properties of parse_resume.                                              *)

PhaseRank(phase) ==
    CASE phase = "name" -> 1 [] phase = "contact" -> 2 [] phase = "title" -> 3 [] phase = "scan" -> 4

\* the stripped lines the cursor passed in the given role, in input order
LinesInRole(role) ==
    LET idx == SelectSeq([k \in 1..Len(consumed) |-> k], LAMBDA k : consumed[k].role = role)
    IN  [n \in 1..Len(idx) |-> Strip(lines[idx[n]])]

\* C5: the Jane Doe scenario parses to the stated document, and in every
\* run each line is passed by the cursor exactly once, by the name phase,
\* then the contact phase, then the title phase, then the section scan,
\* and the name, the contact lines and the title are the lines passed in
\* those roles.
C5_ScenarioAndPhaseOrder ==
    /\ Len(consumed) = i /\ i <= Len(lines)
    /\ \A a, b \in 1..Len(consumed) :
          a < b => PhaseRank(consumed[a].phase) <= PhaseRank(consumed[b].phase)
    /\ pc = "parsed" =>
          /\ Len(consumed) = Len(lines)
          /\ data.name = Concat(LinesInRole("name") \o LinesInRole("name_char"))
          /\ SelectSeq(data.contact, LAMBDA c : c # << >>) = LinesInRole("contact")
          /\ data.title = Concat(LinesInRole("title"))
          /\ Len(LinesInRole("name")) <= 1 /\ Len(LinesInRole("title")) <= 1
          /\ \A k \in 1..Len(consumed) :
                consumed[k].role = "heading" <=> 
                    /\ consumed[k].phase = "scan"
                    /\ LineKey(Strip(lines[k])) \in KNOWN_SECTION_KEYS
                          \/ StartsWith(LineKey(Strip(lines[k])), Txt_certificat)
    /\ (pc = "parsed" /\ lines = ScenarioJaneDoe) =>
          /\ data.name = Chars("Jane Doe")
          /\ build_contact_items(data.contact)
                = << ContactEntry(Chars("Phone"), Chars("phone"), Chars("555-1234")) >>
          /\ data.title = Chars("Software Engineer")
          /\ data.summary = Chars("Built things.")
          /\ data.experience
                = << ExperienceRecord(Chars("Acme Corp"), << Chars("2020-2022") >>,
                                      << Chars("Did X"), Chars("Did Y") >>) >>

C5_Witness ==
    /\ pc = "parsed"
    /\ lines = ScenarioJaneDoe
    /\ Len(data.experience) = 1
    /\ data.experience[1].bullets = << Chars("Did X"), Chars("Did Y") >>

\* the 1-based index of the first non-blank line, 0 if there is none
FirstNonBlank ==
    LET nb == {k \in 1..Len(lines) : Strip(lines[k]) # << >>}
    IN  IF nb = {} THEN 0 ELSE SetMin(nb)

\* the 1-based index of the last line of the run of one-character lines
\* right after the name line; FirstNonBlank when there is no such run
VerticalRunLast ==
    LET longer == {k \in (FirstNonBlank + 1)..Len(lines) : Len(Strip(lines[k])) # 1}
    IN  IF FirstNonBlank = 0 THEN 0
        ELSE IF longer = {} THEN Len(lines)
        ELSE SetMin(longer) - 1

\* C6: when the first non-blank line is followed by a run of one-character
\* lines, the name is the first line followed by those characters in order,
\* the contact scan starts right after the run, and no line of the run is
\* recorded as a contact line.
C6_VerticalNameCollapses ==
    LET first == FirstNonBlank
        last == VerticalRunLast
    IN  (pc # "parse_name" /\ last > first) =>
            /\ data.name = Strip(lines[first])
                              \o [n \in 1..(last - first) |-> Strip(lines[first + n])[1]]
            /\ i >= last /\ Len(consumed) >= last
            /\ \A k \in (first + 1)..last : consumed[k].role = "name_char"
            /\ \A k \in 1..Len(consumed) : consumed[k].role = "contact" => k > last
            /\ (last < Len(lines) /\ Strip(lines[last + 1]) # << >> /\ Len(consumed) > last)
                  => consumed[last + 1].role = "contact"
            /\ \A n \in 1..Len(data.contact) :
                  data.contact[n] # << >> =>
                      \E k \in (last + 1)..Len(lines) : data.contact[n] = Strip(lines[k])

C6_Witness ==
    /\ pc = "parsed"
    /\ lines = ScenarioVerticalName
    /\ data.name = Chars("JANE")
    /\ data.contact = << Chars("Phone: 555-1234"), Chars("Email: j@x.co") >>

\* whether a heading of the section was scanned and a non-blank line was
\* buffered under it
SectionHasContent(sec) ==
    \E k \in 1..Len(consumed) :
        /\ consumed[k].role = "heading"
        /\ SectionOfKey(LineKey(Strip(lines[k]))) = sec
        /\ \E m \in (k + 1)..Len(consumed) :
              /\ Strip(lines[m]) # << >>
              /\ \A n \in (k + 1)..m : consumed[n].role = "body"

\* what is left of the parse: the phases to go, then the lines to go
ParseMeasure ==
    LET togo == CASE pc = "parse_name" -> 4 [] pc = "parse_contact" -> 3
                  [] pc = "parse_title" -> 2 [] pc = "parse_scan" -> 1 [] OTHER -> 0
    IN  togo * (Len(lines) + 1) + (Len(lines) - i)

\* the state part of C8: the parser is in one of its phases with the cursor
\* within the input, and a field differs from its empty default only if the
\* input holds its section with content
C8_Safe ==
    /\ i \in 0..Len(lines)
    /\ pc \in {"parse_name", "parse_contact", "parse_title", "parse_scan", "parsed"}
    /\ data.name # << >> => \E k \in 1..Len(lines) : Strip(lines[k]) # << >>
    /\ data.contact # << >> => \E k \in 1..Len(consumed) : consumed[k].role = "contact"
    /\ data.company # << >> =>
          \E k \in 1..Len(consumed) :
              /\ consumed[k].role = "contact"
              /\ StartsWith(Lower(Strip(lines[k])), Chars("company name:"))
    /\ data.title # << >> => \E k \in 1..Len(consumed) : consumed[k].role = "title"
    /\ data.summary # << >> => SectionHasContent("professional summary")
    /\ data.experience # << >> => SectionHasContent("professional experience")
    /\ (data.skills_raw # << >> \/ data.skills # << >>) => SectionHasContent("technical skills")
    /\ data.certifications # << >> => SectionHasContent("certifications")
    /\ data.education # << >> => SectionHasContent("education")

\* C8: parse_resume never fails: on every input each step keeps the cursor
\* within the input and brings the return nearer (so it terminates), and
\* every field whose section is missing or empty keeps its empty default.
C8_ParserNeverFails == [] C8_Safe /\ [][ParseMeasure' < ParseMeasure]_vars

C8_Witness ==
    /\ pc = "parsed"
    /\ lines = << Chars("Jane Doe"), Chars("Skills"), Chars("x"), << >>, Chars("Education:"),
                  Chars("Summary"), << >>, Chars("Experience:") >>
    /\ data.summary = << >> /\ data.experience = << >> /\ data.education = << >>
    /\ data.skills_raw = << >> /\ data.title = << >>

\* the line with its leading bullet glyphs and the whitespace among them removed
GlyphsStripped(ln) ==
    LET keep == {k \in 1..Len(ln) : ln[k] \notin {"*", "-", "U2022"} /\ ~IsSpace(ln[k])}
    IN  IF keep = {} THEN << >> ELSE SubSeq(ln, SetMin(keep), Len(ln))

LedByGlyph(ln) == ln # << >> /\ ln[1] \in {"*", "-", "U2022"}

\* the blocks (their non-blank lines) of the experience buffer being flushed
FlushedBlocks ==
    LET blocks == ExperienceBlocks(Strip(Join(buffer, << "\n" >>)))
    IN  [k \in 1..Len(blocks) |-> NonBlankLines(blocks[k])]

\* the entries a step appended to data.experience
AppendedEntries == SubSeq(data'.experience, Len(data.experience) + 1, Len(data'.experience))

\* no stored header starts with a glyph, no stored bullet is empty or starts with one
StoredRolesClean ==
    \A n \in 1..Len(data.experience) :
        /\ ~LedByGlyph(data.experience[n].header)
        /\ \A b \in 1..Len(data.experience[n].bullets) :
              /\ data.experience[n].bullets[b] # << >>
              /\ ~LedByGlyph(data.experience[n].bullets[b])

\* C10 as stated: a block whose first line is led by a glyph yields an empty
\* header and that line, glyphs stripped, as the first bullet; any other
\* block yields its first line as the header and no bullet for it.
C10_HeaderBulletExclusiveAsStated ==
    [][ data'.experience # data.experience =>
          /\ Len(AppendedEntries) = Len(FlushedBlocks)
          /\ \A k \in 1..Len(FlushedBlocks) :
                LET lp == FlushedBlocks[k]
                    e == AppendedEntries[k]
                IN  IF LedByGlyph(lp[1])
                    THEN /\ e.header = << >>
                         /\ e.bullets # << >>
                         /\ e.bullets[1] = GlyphsStripped(lp[1])
                    ELSE /\ e.header = lp[1]
                         /\ Len(e.bullets) + Len(e.duration) <= Len(lp) - 1 ]_vars

\* C10, amended: as stated, except that a first line holding nothing but
\* glyphs yields no bullet; and no stored header starts with a glyph, no
\* stored bullet is empty or starts with a glyph.
C10_HeaderBulletExclusive ==
    /\ [] StoredRolesClean
    /\ [][ data'.experience # data.experience =>
             /\ Len(AppendedEntries) = Len(FlushedBlocks)
             /\ \A k \in 1..Len(FlushedBlocks) :
                   LET lp == FlushedBlocks[k]
                       e == AppendedEntries[k]
                   IN  IF LedByGlyph(lp[1])
                       THEN /\ e.header = << >>
                            /\ IF GlyphsStripped(lp[1]) # << >>
                               THEN e.bullets # << >> /\ e.bullets[1] = GlyphsStripped(lp[1])
                               ELSE Len(e.bullets) + Len(e.duration) <= Len(lp) - 1
                       ELSE /\ e.header = lp[1]
                            /\ Len(e.bullets) + Len(e.duration) <= Len(lp) - 1 ]_vars

C10_Witness ==
    /\ pc = "parsed"
    /\ buffer = << Chars("- Did X"), Chars("2020-2022") >>
    /\ data.experience
          = << ExperienceRecord(<< >>, << Chars("2020-2022") >>, << Chars("Did X") >>) >>


-----------------------------------------------------------------------------
(* Properties of the renderer.  They read the file as a PDF reader does:    *)
(* from the bytes alone.                                                    *)

\* the value of a string of decimal digits
RECURSIVE ParseDec(_)
ParseDec(s) ==
    IF s = << >> THEN 0
    ELSE ParseDec(SubSeq(s, 1, Len(s) - 1)) * 10 + (CHOOSE d \in 0..9 : Dec(d) = << s[Len(s)] >>)

IsDecimal(s) == s # << >> /\ \A k \in 1..Len(s) : s[k] \in Digits

\* the bytes of buf from offset `at` (0-based) up to the next line feed
LineAt(buf, at) ==
    LET ends == {k \in (at + 1)..Max2(at + 1, SetMin({Len(buf), at + 80})) : k <= Len(buf) /\ buf[k] = "\n"}
    IN  IF ends = {} THEN << >> ELSE SubSeq(buf, at + 1, SetMin(ends) - 1)

\* whether offset `at` is the first byte of a line of buf
IsLineStart(buf, at) == at = 0 \/ (at <= Len(buf) /\ buf[at] = "\n")

\* the number after the last "startxref" line, read from the end of the file
StartXref(buf) ==
    LET n == Len(buf)
        feeds == {k \in Max2(1, n - 30)..(n - 7) : buf[k] = "\n"}
    IN  IF n < 30 \/ feeds = {} \/ SubSeq(buf, n - 6, n) # << "\n" >> \o Chars("%%EOF") \o << "\n" >>
        THEN -1
        ELSE LET digits == SubSeq(buf, SetMax(feeds) + 1, n - 7)
                 at == SetMax(feeds) - 10
             IN  IF IsDecimal(digits) /\ at >= 0
                    /\ SubSeq(buf, at + 1, at + 10) = Chars("startxref") \o << "\n" >>
                 THEN ParseDec(digits) ELSE -1

\* the number of entries the table at offset x announces ("0 K")
XrefCount(buf, x) ==
    LET head == LineAt(buf, x + 5)
    IN  IF Len(head) > 2 /\ SubSeq(head, 1, 2) = Chars("0 ") /\ IsDecimal(SubSeq(head, 3, Len(head)))
        THEN ParseDec(SubSeq(head, 3, Len(head))) ELSE -1

\* the 20 bytes of entry n (from 0) of the table at offset x
XrefEntryAt(buf, x, n) ==
    LET first == x + 5 + Len(LineAt(buf, x + 5)) + 1 + 20 * n
    IN  SubSeq(buf, first + 1, first + 20)

\* the offset entry n gives, -1 when it is not an in-use entry
XrefOffsetOf(buf, x, n) ==
    LET e == XrefEntryAt(buf, x, n)
    IN  IF Len(e) = 20 /\ IsDecimal(SubSeq(e, 1, 10))
           /\ SubSeq(e, 11, 20) = Chars(" 00000 n ") \o << "\n" >>
        THEN ParseDec(SubSeq(e, 1, 10)) ELSE -1

\* whether the object `body` with id n stands at offset `at` of buf
ObjectBeginsAt(buf, at, n, body) ==
    LET whole == Dec(n) \o Chars(" 0 obj") \o << "\n" >> \o body \o << "\n" >>
                    \o Chars("endobj") \o << "\n" >>
    IN  /\ at >= 0 /\ IsLineStart(buf, at)
        /\ SubSeq(buf, at + 1, at + Len(whole)) = whole

\* whether the table of the file buf is the table of the objects objs
XrefMatches(buf, objs) ==
    LET x == StartXref(buf)
        count == XrefCount(buf, x)
    IN  /\ x >= 0 /\ IsLineStart(buf, x)
        /\ SubSeq(buf, x + 1, x + 5) = Chars("xref") \o << "\n" >>
        /\ count = Cardinality(DOMAIN objs)
        /\ XrefEntryAt(buf, x, 0) = Chars("0000000000 65535 f ") \o << "\n" >>
        /\ \A n \in 1..(count - 1) : ObjectBeginsAt(buf, XrefOffsetOf(buf, x, n), n, objs[n])

\* C1: in the file written for any document, the offset the
\* cross-reference table gives for each object id N is the position where
\* "N 0 obj" of that object begins, and the startxref value is the position
\* where the "xref" keyword begins.
C1_XrefOffsetsExact ==
    pc = "rendered" => Len(written) = 1 /\ XrefMatches(written[1], objects)

\* a file of two pages or more has been written, with eight objects or more
C1_Witness ==
    /\ pc = "rendered" /\ Len(page_streams) >= 2
    /\ XrefCount(written[1], StartXref(written[1])) = 5 + 2 * Len(page_streams)
    /\ XrefOffsetOf(written[1], StartXref(written[1]), 7) > XrefOffsetOf(written[1], StartXref(written[1]), 6)

\* the line of buf that ends just before offset `at`
LineBefore(buf, at) ==
    LET feeds == {k \in Max2(1, at - 80)..(at - 1) : buf[k] = "\n"}
    IN  IF feeds = {} THEN << >> ELSE SubSeq(buf, SetMax(feeds) + 1, at - 1)

\* C7: the empty document is rendered as one page: six objects (catalog,
\* page tree, two fonts, one page, one content stream), a page tree with
\* /Count 1, a cross-reference table of seven entries with a correct offset
\* per object, and /Size 7 in the trailer.
C7_EmptyDocumentOnePage ==
    (pc = "rendered" /\ lines = << >>) =>
        LET file == written[1]
            x == StartXref(file)
        IN  /\ Len(page_streams) = 1
            /\ DOMAIN objects = 0..6
            /\ StartsWith(objects[1], Chars("<< /Type /Catalog "))
            /\ StartsWith(objects[2], Chars("<< /Type /Pages "))
            /\ EndsWith(objects[2], Chars("/Kids [5 0 R] /Count 1 >>"))
            /\ StartsWith(objects[3], Chars("<< /Type /Font "))
            /\ StartsWith(objects[4], Chars("<< /Type /Font "))
            /\ StartsWith(objects[5], Chars("<< /Type /Page "))
            /\ EndsWith(objects[5], Chars("/Contents 6 0 R >>"))
            /\ StartsWith(objects[6], Chars("<< /Length "))
            /\ EndsWith(objects[6], page_streams[1] \o << "\n" >> \o Chars("endstream"))
            /\ XrefCount(file, x) = 7
            /\ XrefMatches(file, objects)
            /\ LineBefore(file, Len(file) - Len(Dec(x)) - 17) = Chars("<< /Size 7 /Root 1 0 R >>")

\* the empty document has been rendered, its one page showing the
\* placeholder name
C7_Witness ==
    /\ pc = "rendered" /\ lines = << >>
    /\ items = << line_item(Chars("Candidate Name"), 22000, TRUE, "C", 0, 3000), spacer_item(28000) >>
    /\ EndsWith(page_streams[1], Chars("(Candidate Name) Tj") \o << "\n" >> \o Chars("ET"))

\* the lines of a content stream, by halves
RECURSIVE LinesOfStream(_)
LinesOfStream(b) ==
    IF Len(b) <= 1 THEN (IF b = << "\n" >> THEN << << >>, << >> >> ELSE << b >>)
    ELSE LET h == Len(b) \div 2
             left == LinesOfStream(SubSeq(b, 1, h))
             right == LinesOfStream(SubSeq(b, h + 1, Len(b)))
         IN  SubSeq(left, 1, Len(left) - 1) \o << left[Len(left)] \o right[1] >> \o Tail(right)

\* a line of a content stream that is a text-show operator, "(...) Tj"
IsTextShow(l) == Len(l) >= 5 /\ l[1] = "(" /\ EndsWith(l, Chars(") Tj"))

\* the string a PDF reader takes from a literal: of each run of
\* backslashes every second one stands, the others escape what follows
Unescape(s) ==
    LET IsEscape(k) ==
            s[k] = "\\" /\ (k - SetMax({0} \cup {j \in 1..(k - 1) : s[j] # "\\"})) % 2 = 1
    IN  ConcatAll([k \in 1..Len(s) |-> IF IsEscape(k) THEN << >> ELSE << s[k] >>])

NonSpace(s) == SelectSeq(s, LAMBDA c : ~IsSpace(c))

\* the characters, spaces left out, that the text-show operators of a
\* content stream show, in order
ShownChars(stream) ==
    LET shows == SelectSeq(LinesOfStream(stream), IsTextShow)
    IN  ConcatAll([k \in 1..Len(shows) |->
                      NonSpace(Decode(Unescape(SubSeq(shows[k], 2, Len(shows[k]) - 4))))])

\* what the pages emitted so far and the page being filled show
ShownSoFar ==
    ConcatAll([k \in 1..Len(page_streams) |-> ShownChars(page_streams[k])])
        \o ShownChars(Encode(Join(current_cmds, << "\n" >>)))

\* the text a draw instruction carries
ItemText(item) ==
    CASE item.type \in {"line", "para"} -> item.text
      [] item.type = "expmeta" -> item.left \o item.right
      [] item.type \in {"kvpara", "kvblock"} -> item.label \o item.value
      [] OTHER -> << >>

IsBulleted(item) == item.type = "para" /\ item.bullet

RenderPhases ==
    {"render_items", "alloc_objs", "set_objs", "write_header", "write_objs",
     "write_trailer", "write_file", "rendered"}

\* C2 as stated: the pages show as many characters as the draw
\* instructions carry (spaces, which wrapping may turn into line breaks,
\* left out on both sides).
C2_PagesShowCarriedTextOnly ==
    pc = "rendered" =>
        Len(ShownSoFar) = Len(ConcatAll([k \in 1..Len(items) |-> NonSpace(ItemText(items[k]))]))

\* C2: pagination never drops or alters content: at every point of the item
\* loop and after it, the characters the pages show are, in order, the
\* characters carried by the instructions drawn so far, with the bullet
\* marker the paginator itself draws before each bulleted paragraph (spaces
\* left out on both sides).
C2_PaginationKeepsContent ==
    pc \in RenderPhases =>
        ShownSoFar = ConcatAll([k \in 1..nitem |->
                                   (IF IsBulleted(items[k]) THEN << "U2022" >> ELSE << >>)
                                       \o NonSpace(ItemText(items[k]))])

\* a document of bulleted paragraphs has been laid out over two pages or
\* more, one of its paragraphs wrapped over several lines or not
C2_Witness ==
    /\ pc = "rendered" /\ Len(page_streams) >= 2
    /\ \E k \in 1..Len(items) : IsBulleted(items[k])
    /\ ShownChars(page_streams[2]) # << >>

\* ---------------------------------------------------------------------
\* convert_text_to_pdf and render_pdf: the output path and I/O failures
\* ---------------------------------------------------------------------

\* the call returned a path (from the built-in renderer or from a library)
CallReturned == pc \in {"rendered", "fallback_done"} /\ result.kind = "path"

\* the caller passed a path whose last component ends in ".pdf"
OutputIsPdfFile ==
    /\ output_pdf_path # << >>
    /\ EndsWith(output_pdf_path[Len(output_pdf_path)], Chars(".pdf"))

\* C11: when the caller passes a path ending in .pdf, the path that
\* convert_text_to_pdf returns (and writes) equals the passed path.
C11_ReturnsPassedPath ==
    (CallReturned /\ OutputIsPdfFile) => result.path = output_pdf_path

\* the built-in renderer failed to create the directory or to write the file
BuiltinIoFailed ==
    \E k \in 1..Len(attempts) : attempts[k].renderer = "builtin" /\ ~attempts[k].ok

\* C12: after an I/O failure inside the built-in renderer, render_pdf makes
\* no further render or write attempt, logs nothing in place of raising, and
\* the call never returns a path.
C12_IoFailureSurfaced ==
    BuiltinIoFailed =>
        /\ Len(attempts) = 1
        /\ logged = << >>
        /\ result.kind # "path"

\* ---------------------------------------------------------------------
\* the paginator: termination, the cursor, flushed pages
\* ---------------------------------------------------------------------

usable_h == page_h - margin_t - margin_b

\* the height the space check of an instruction asks for
ItemHeight(item) ==
    CASE item.type = "spacer" -> item.height
      [] item.type = "rule" -> 6000
      [] OTHER -> LineHeight(item.size)

\* the instruction makes one space check: a spacer, or a line or rule
\* without a gap after it
SingleCheck(item) ==
    \/ item.type = "spacer"
    \/ item.type \in {"line", "rule"} /\ item.gap_after = 0

\* the number of draw commands in a page's content stream: its lines
StreamCmds(b) ==
    IF b = << >> THEN 0 ELSE Cardinality({k \in 1..Len(b) : b[k] = "\n"}) + 1

RECURSIVE CmdsOfPages(_)
CmdsOfPages(pages) ==
    IF pages = << >> THEN 0 ELSE StreamCmds(Head(pages)) + CmdsOfPages(Tail(pages))

\* the draw commands emitted so far, on flushed pages and on the open one
CmdsEmitted == CmdsOfPages(page_streams) + Len(current_cmds)

\* the step draws one instruction that makes a single space check
DrawsSingle ==
    /\ pc = "render_items" /\ nitem' = nitem + 1
    /\ SingleCheck(items[nitem'])

\* one step of the paginator under C13
C13_Step ==
    /\ pc = "render_items" =>
          \/ nitem' = nitem + 1 /\ nitem' <= Len(items) /\ pc' = pc
          \/ nitem = Len(items) /\ nitem' = nitem /\ pc' = "alloc_objs"
    /\ DrawsSingle =>
          LET item == items[nitem']
              h == ItemHeight(item)
          IN  /\ Len(page_streams') <= Len(page_streams) + 1
              /\ (h > usable_h /\ item.type # "spacer") =>
                    /\ y' = page_h - margin_t - h
                    /\ Len(current_cmds') \in {5, 6}
              /\ (current_cmds = << >> /\ y - h < margin_b) =>
                    page_streams' = page_streams
    /\ (pc = "render_items" /\ pc' = "alloc_objs" /\ current_cmds = << >>
            /\ page_streams # << >>) =>
          page_streams' = page_streams
    /\ Len(page_streams') <= CmdsEmitted'

\* C13: pagination terminates without unbounded page creation: every step
\* of the item loop consumes one instruction until the list is exhausted,
\* a space check adds at most one page, an instruction higher than the
\* usable page height is emitted on the fresh page instead of being
\* retried, flushing a page without commands creates no page, and the
\* pages never outnumber the draw commands.
C13_PaginationTerminates == [][C13_Step]_vars

\* an oversized line has been emitted on a fresh page, and a flush of a
\* page without commands has gone by without creating a page
C13_Witness ==
    /\ pc = "alloc_objs" /\ items = PaginateOversized
    /\ Len(page_streams) = 4

\* the list holds only heights the layout uses: none exceeds the name line's
LayoutSized == \A k \in 1..Len(items) : ItemHeight(items[k]) <= LineHeight(22000)

IsPrefixOf(a, b) == Len(a) <= Len(b) /\ SubSeq(b, 1, Len(a)) = a

CursorInRange(v) == margin_b <= v /\ v <= page_h - margin_t

\* the page the open commands make when it is flushed
ClosedPages ==
    IF current_cmds = << >> THEN page_streams
    ELSE Append(page_streams, Encode(Join(current_cmds, << "\n" >>)))

\* one step of the paginator under C14
C14_Step ==
    (pc = "render_items" /\ LayoutSized) =>
        /\ nitem = 0 => y = page_h - margin_t
        /\ CursorInRange(y) /\ CursorInRange(y')
        /\ pc' = "alloc_objs" => y' = page_h - margin_t
        /\ DrawsSingle =>
              LET h == ItemHeight(items[nitem'])
              IN  IF y - h < margin_b
                  THEN /\ page_streams' = ClosedPages
                       /\ y' = page_h - margin_t - h
                       /\ ~IsPrefixOf(current_cmds, current_cmds') \/ current_cmds = << >>
                  ELSE /\ page_streams' = page_streams
                       /\ y' = y - h
                       /\ IsPrefixOf(current_cmds, current_cmds')

\* C14: with the layout's sizes the cursor starts at page_h - margin_t, every
\* flush resets it to that value, it stays within [margin_b, page_h - margin_t],
\* and a line, rule or spacer is placed at the cursor when cursor - height >=
\* margin_b and after a flush exactly when cursor - height < margin_b.
C14_CursorWithinMargins == [][C14_Step]_vars

\* a line has been emitted that ends exactly on the bottom margin
C14_Witness ==
    /\ pc = "render_items" /\ LayoutSized
    /\ y = margin_b /\ current_cmds # << >> /\ nitem > 0
    /\ items[nitem].type = "line"

\* the commands of the open page stay where they are: the page grows at its
\* end or, when the step flushes it, is closed with them at its start
OpenPageKept ==
    IF page_streams' = page_streams
    THEN IsPrefixOf(current_cmds, current_cmds')
    ELSE current_cmds # << >> =>
            IsPrefixOf(Encode(Join(current_cmds, << "\n" >>)),
                       page_streams'[Len(page_streams) + 1])

\* the content objects hold the flushed pages in page order
ContentsInPageOrder ==
    \A k \in 1..Len(page_streams) :
        objects[content_id(k - 1)] = ContentObject(page_streams[k])

\* one step of the program under C15
C15_Step ==
    /\ IsPrefixOf(page_streams, page_streams')
    /\ pc = "render_items" => OpenPageKept
    /\ pc' \in {"write_header", "write_objs", "write_trailer", "write_file", "rendered"} =>
          ContentsInPageOrder'

\* C15: a flushed page is never reopened: the list of completed pages only
\* grows at its end, the commands emitted later follow, in page order, all
\* those emitted before, and the file's content objects hold the pages in
\* that order.
C15_FlushedPagesFrozen == [][C15_Step]_vars

\* commands have been drawn on a third page after two pages were flushed
C15_Witness ==
    /\ pc = "render_items" /\ Len(page_streams) = 2 /\ current_cmds # << >>

\* the pages are final: the last flush of line 768 is done
PagesFinal == pc \in (RenderPhases \ {"render_items"})

\* C16: no page without draw commands is emitted among other pages, at
\* least one page is always emitted, and for an entirely empty document the
\* single page emitted is blank: its content stream holds no draw command.
C16_BlankPageOnlyWhenEmpty ==
    PagesFinal =>
        /\ Len(page_streams) >= 1
        /\ Len(page_streams) >= 2 =>
              \A k \in 1..Len(page_streams) : page_streams[k] # << >>
        /\ lines = << >> => page_streams = << << >> >>

\* ---------------------------------------------------------------------
\* parse_resume: the section scan, the contact block, experience blocks
\* ---------------------------------------------------------------------

\* C17: in the section scan a line switches the active section, after the
\* previous section's buffer was flushed, if and only if its key is one of
\* the ten known section keys; every other line is appended to the buffer
\* of the current section.
C17_SwitchIffKnownKey ==
    [][(pc = "parse_scan" /\ i < Len(lines)) =>
          LET ln == Strip(lines[i + 1])
          IN  IF LineKey(ln) \in KNOWN_SECTION_KEYS
              THEN /\ data' = flush_buffer(data, section, buffer)
                   /\ buffer' = << >>
                   /\ section' # ""
              ELSE /\ buffer' = Append(buffer, ln)
                   /\ section' = section]_vars

IsNationality(c) == StartsWith(Lower(c), Txt_nationality)

ContactScanned == pc \notin {"parse_name", "parse_contact"}

\* C18: after the contact scan every contact line beginning with
\* "nationality:" (in any case) is followed by exactly one blank entry, also
\* when it is the last contact line; there is no other blank entry and the
\* contact lines keep their order.
C18_OneBlankAfterNationality ==
    ContactScanned =>
        LET ct == data.contact
        IN  /\ \A k \in 1..Len(ct) :
                  IsNationality(ct[k]) =>
                      /\ k < Len(ct) /\ ct[k + 1] = << >>
                      /\ k + 2 <= Len(ct) => ct[k + 2] # << >>
            /\ \A k \in 1..Len(ct) :
                  ct[k] = << >> => k > 1 /\ IsNationality(ct[k - 1])
            /\ SelectSeq(ct, LAMBDA c : c # << >>) = LinesInRole("contact")

\* the scan is over for contact lines whose last one is a nationality line
C18_Witness ==
    /\ pc = "parsed" /\ lines = ScenarioNationalityLast
    /\ Len(data.contact) = 5 /\ data.contact[5] = << >>

\* the blocks of the buffer: its runs of lines that are not blank
BufferBlocks ==
    LET starts == {k \in 1..Len(buffer) :
                      buffer[k] # << >> /\ (k = 1 \/ buffer[k - 1] = << >>)}
        first == SortedSeq(starts)
        last(s) == SetMin({j \in s..Len(buffer) : j = Len(buffer) \/ buffer[j + 1] = << >>})
    IN  [n \in 1..Len(first) |-> SubSeq(buffer, first[n], last(first[n]))]

\* the second line of the block holds a run of four digits
SecondLineDated(lp) == Len(lp) >= 2 /\ HasFourDigits(lp[2])

\* the lines of the block after the header and the duration
LinesAfterHead(lp) == SubSeq(lp, IF SecondLineDated(lp) THEN 3 ELSE 2, Len(lp))

\* the bullets of the entry that come from the lines after the first
BulletsAfterHead(lp, e) ==
    IF LedByGlyph(lp[1]) /\ GlyphsStripped(lp[1]) # << >> THEN Tail(e.bullets) ELSE e.bullets

\* C19 as stated: the experience buffer is split at blank lines, each block
\* gives one entry, the duration is the second line iff it holds four digits
\* in a row, and every other line after the first becomes a bullet.
C19_DurationIffDatedAsStated ==
    [][ data'.experience # data.experience =>
          /\ Len(AppendedEntries) = Len(BufferBlocks)
          /\ \A k \in 1..Len(BufferBlocks) :
                LET lp == BufferBlocks[k]
                    e == AppendedEntries[k]
                IN  /\ e.duration = IF SecondLineDated(lp) THEN << lp[2] >> ELSE << >>
                    /\ Len(BulletsAfterHead(lp, e)) = Len(LinesAfterHead(lp)) ]_vars

\* C19, amended: as stated, except that a line holding nothing but bullet
\* glyphs yields no bullet: the bullets are, in order, the lines after the
\* header and the duration with their leading glyphs stripped, those left
\* empty dropped; the duration line is not among them.
C19_DurationIffDated ==
    [][ data'.experience # data.experience =>
          /\ Len(AppendedEntries) = Len(BufferBlocks)
          /\ \A k \in 1..Len(BufferBlocks) :
                LET lp == BufferBlocks[k]
                    e == AppendedEntries[k]
                    stripped_rest == [n \in 1..Len(LinesAfterHead(lp)) |->
                                         GlyphsStripped(LinesAfterHead(lp)[n])]
                IN  /\ e.duration = IF SecondLineDated(lp) THEN << lp[2] >> ELSE << >>
                    /\ BulletsAfterHead(lp, e)
                          = SelectSeq(stripped_rest, LAMBDA b : b # << >>) ]_vars

\* three blocks were flushed: with a duration, without one, and with a
\* first line led by a glyph
C19_Witness ==
    /\ pc = "parsed" /\ lines = ScenarioExperience
    /\ Len(data.experience) = 3
    /\ data.experience[1].duration = << Chars("2020-2022") >>
    /\ data.experience[2].duration = << >>
    /\ data.experience[2].bullets = << Chars("Did Y"), Chars("20201 z") >>
    /\ data.experience[3].duration = << Chars("2001") >>

\* ---------------------------------------------------------------------
\* _wrap_pdf_text
\* ---------------------------------------------------------------------

\* the number of words on a line
WordCount(line) == Len(Words(line))

\* the words of the input text, each as the safe text holds it
InputWords ==
    LET ws == Words(wrap_text)
    IN  [k \in 1..Len(ws) |-> pdf_safe_text(ws[k])]

\* the returned list: at least one line, each within max_chars or a single
\* word, and joined by single spaces the lines hold the input words in order
WrapResultSound ==
    pc = "wrap_done" =>
        /\ Len(wrap_lines) >= 1
        /\ \A k \in 1..Len(wrap_lines) :
              Len(wrap_lines[k]) <= wrap_max \/ WordCount(wrap_lines[k]) = 1
        /\ Words(Join(wrap_lines, << " " >>)) = InputWords
        /\ wrap_lines = wrap_pdf_text(wrap_text, wrap_max)

\* one iteration of the loop: the word joins the current line exactly when
\* line, space and word fit into max_chars, and otherwise opens a new line
WrapStepGreedy ==
    (pc = "wrap_loop" /\ wrap_words # << >>) =>
        LET word == Head(wrap_words)
        IN  IF Len(wrap_current) + 1 + Len(word) <= wrap_max
            THEN /\ wrap_current' = wrap_current \o << " " >> \o word
                 /\ wrap_lines' = wrap_lines
            ELSE /\ wrap_current' = word
                 /\ wrap_lines' = Append(wrap_lines, wrap_current)

\* C20: _wrap_pdf_text is a greedy word wrap: it returns at least one line,
\* a word is appended to the current line exactly when current line, one
\* space and the word have length <= max_chars, every returned line has
\* length <= max_chars or is a single word, and the lines joined by single
\* spaces are the input words in their order, none dropped or split.
C20_GreedyWrap == [] WrapResultSound /\ [][WrapStepGreedy]_vars

\* three words filled the line exactly, the fourth opened a second line
C20_Witness ==
    /\ pc = "wrap_done" /\ wrap_max = 20
    /\ wrap_lines = << Chars("dddddd dddddd dddddd"), Chars("bb") >>

\* ---------------------------------------------------------------------
\* the layout engine: the draw-instruction list
\* ---------------------------------------------------------------------

\* the items are built (lines 498-580 are done)
ItemsBuilt == pc \in RenderPhases

\* a section heading line: size 11.5, left-aligned (line 507)
IsHeading(it) == it.type = "line" /\ it.size = 11500 /\ it.align = "L"

IsSpacer(it) == it.type = "spacer"

\* the heading at position k has a spacer of at least 18 pt before it and
\* a rule after it
HeadingFramed(k) ==
    /\ k > 1 /\ IsSpacer(items[k - 1]) /\ items[k - 1].height >= 18000
    /\ k < Len(items) /\ items[k + 1].type = "rule"

\* C21 as stated: every section heading is immediately preceded by exactly
\* one spacer of height at least 18 and immediately followed by a rule.
C21_HeadingOneSpacerAsStated ==
    ItemsBuilt =>
        \A k \in 1..Len(items) :
            IsHeading(items[k]) =>
                /\ HeadingFramed(k)
                /\ k > 2 => ~IsSpacer(items[k - 2])

\* C21, amended: every section heading is immediately preceded by a spacer
\* of height at least 18 and immediately followed by a rule; the heading
\* stacks no spacer of its own on a pending one, so a spacer before that
\* spacer can only be the 4-point spacer that closes an experience entry.
C21_HeadingSpacerAndRule ==
    ItemsBuilt =>
        \A k \in 1..Len(items) :
            IsHeading(items[k]) =>
                /\ HeadingFramed(k)
                /\ (k > 2 /\ IsSpacer(items[k - 2])) => items[k - 2].height = 4000

\* the list holds a heading after the raised spacer of an empty experience
\* entry, and a heading after a raised header spacer
C21_Witness ==
    /\ ItemsBuilt /\ lines = ScenarioEmptyEntry
    /\ \E k \in 3..Len(items) :
          IsHeading(items[k]) /\ IsSpacer(items[k - 2]) /\ items[k - 1].height = 18000
    /\ IsHeading(items[3]) /\ items[2].height = 28000

\* ---------------------------------------------------------------------
\* the header and the duration of an experience entry
\* ---------------------------------------------------------------------

\* the step draws an experience entry that has a header and a duration
DrawsEntry ==
    /\ pc = "render_items" /\ nitem' = nitem + 1
    /\ items[nitem'].type = "expmeta"
    /\ items[nitem'].left # << >> /\ items[nitem'].right # << >>

\* the estimated widths and the gutter fit the content width (line 690)
EntryFits(it) ==
    approx_text_width(it.left, it.size, TRUE) + approx_text_width(it.right, it.size, FALSE)
        + 18000 <= content_w

\* the height at which the entry's first line is shown: the cursor, or the
\* top of a new page when the line does not fit any more (line 686)
EntryTop(it) ==
    IF y - LineHeight(it.size) < margin_b THEN page_h - margin_t ELSE y

\* the last n draw commands of the open page
LastCmds(n) ==
    IF Len(current_cmds') < n THEN << >>
    ELSE SubSeq(current_cmds', Len(current_cmds') - n + 1, Len(current_cmds'))

\* the cursor after the entry: `advance` below the first line, then the
\* gap after the entry
CursorAfterEntry(it, advance) ==
    IF EntryTop(it) - advance - it.gap_after < margin_b
    THEN page_h - margin_t - it.gap_after
    ELSE EntryTop(it) - advance - it.gap_after

\* C22: for an experience entry with header and duration, if the estimated
\* widths plus the 18-point gutter fit the content width, both texts are
\* emitted on the same page at the same height and the cursor advances by
\* exactly one line height; otherwise the duration is emitted on its own
\* line directly beneath the header at indent 12 and the cursor advances by
\* two line heights (the gap after the entry follows in both cases).
C22_EntryOneOrTwoLines ==
    [][DrawsEntry =>
          LET it == items[nitem']
              line_h == LineHeight(it.size)
              size2 == Max2(9500, it.size - 200)
              top == EntryTop(it)
          IN  IF EntryFits(it)
              THEN /\ LastCmds(10) =
                          TextCmds(it.left, it.size, TRUE, margin_l, top)
                            \o TextCmds(it.right, it.size, FALSE,
                                        page_w - margin_r
                                          - approx_text_width(it.right, it.size, FALSE),
                                        top)
                   /\ y' = CursorAfterEntry(it, line_h)
              ELSE /\ LastCmds(10) =
                          TextCmds(it.left, it.size, TRUE, margin_l, top)
                            \o TextCmds(it.right, size2, FALSE, margin_l + 12000,
                                        top - line_h)
                   /\ y' = CursorAfterEntry(it, line_h + LineHeight(size2))]_vars

\* the duration line of an entry that does not fit beside the header has
\* no room under the header any more (the check of add_text_line, line 603)
DurationBreaksPage(it) ==
    EntryTop(it) - LineHeight(it.size) - LineHeight(Max2(9500, it.size - 200)) < margin_b

\* the commands of the page the header is shown on, before the header
CmdsBeforeEntry(it) ==
    IF y - LineHeight(it.size) < margin_b THEN << >> ELSE current_cmds

\* C22, amended: as stated, except that the duration of an entry that does
\* not fit on one line is shown beneath the header only while a second line
\* fits above the bottom margin; otherwise the page is flushed after the
\* header and the duration is the first line of the next page, at indent
\* 12, and the cursor ends one duration line height (and the gap) below the
\* top margin.
C22_EntryLinesWithPageBreak ==
    [][DrawsEntry =>
          LET it == items[nitem']
              line_h == LineHeight(it.size)
              size2 == Max2(9500, it.size - 200)
              top == EntryTop(it)
          IN  CASE EntryFits(it) ->
                     /\ LastCmds(10) =
                            TextCmds(it.left, it.size, TRUE, margin_l, top)
                              \o TextCmds(it.right, it.size, FALSE,
                                          page_w - margin_r
                                            - approx_text_width(it.right, it.size, FALSE),
                                          top)
                     /\ y' = CursorAfterEntry(it, line_h)
                [] ~EntryFits(it) /\ ~DurationBreaksPage(it) ->
                     /\ LastCmds(10) =
                            TextCmds(it.left, it.size, TRUE, margin_l, top)
                              \o TextCmds(it.right, size2, FALSE, margin_l + 12000,
                                          top - line_h)
                     /\ y' = CursorAfterEntry(it, line_h + LineHeight(size2))
                [] OTHER ->
                     /\ current_cmds' =
                            TextCmds(it.right, size2, FALSE, margin_l + 12000,
                                     page_h - margin_t)
                     /\ page_streams'[Len(page_streams')] =
                            Encode(Join(CmdsBeforeEntry(it)
                                          \o TextCmds(it.left, it.size, TRUE, margin_l, top),
                                        << "\n" >>))
                     /\ y' = page_h - margin_t - LineHeight(size2) - it.gap_after]_vars

\* an entry was drawn on one line, another on two lines, and the duration
\* of a third opened the second page
C22_Witness ==
    /\ pc = "render_items" /\ items = PaginateEntries /\ nitem = 7
    /\ Len(page_streams) = 1
    /\ current_cmds = TextCmds(LongDuration, 10000, FALSE, 52000, page_h - margin_t)
    /\ y = 786500

\* ---------------------------------------------------------------------
\* _pdf_safe_text
\* ---------------------------------------------------------------------

\* the keys of the replacement table (lines 379-386)
ReplacementKeys == {"U2013", "U2014", "U2018", "U2019", "U201C", "U201D", "U2022", "U00A0"}

\* an ASCII character: every such character of the model's texts is a
\* string of length one
IsAscii(c) == Len(c) = 1

\* cp1252 has a byte for the character
Cp1252Has(c) == IsAscii(c) \/ c \in ReplacementKeys

\* C24: _pdf_safe_text replaces each character of the replacement table (en
\* dash, em dash, curly quotes, bullet, non-breaking space) by an ASCII
\* equivalent, and its result encodes in cp1252 without failure, every
\* other unencodable character having been replaced.
C24_TableCharsBecomeAscii ==
    pc = "safe_done" =>
        /\ Len(pdf_result) = Len(pdf_text)
        /\ \A k \in 1..Len(pdf_text) :
              /\ pdf_text[k] \in ReplacementKeys => IsAscii(pdf_result[k])
              /\ Cp1252Has(pdf_result[k])

\* ---------------------------------------------------------------------
\* the encoder's object table
\* ---------------------------------------------------------------------

\* the table is allocated / every object is set
ObjectsAllocated ==
    pc \in {"set_objs", "write_header", "write_objs", "write_trailer", "write_file", "rendered"}

ObjectsSet == ObjectsAllocated /\ pc # "set_objs"

\* what the table holds under the id n: a catalog, the page-tree root, a
\* font, a page or a content stream
ObjectKind(body) ==
    CASE StartsWith(body, Chars("<< /Type /Catalog ")) -> "catalog"
      [] StartsWith(body, Chars("<< /Type /Pages ")) -> "pages"
      [] StartsWith(body, Chars("<< /Type /Font /Subtype /Type1 /BaseFont /Helvetica ")) -> "regular"
      [] StartsWith(body, Chars("<< /Type /Font /Subtype /Type1 /BaseFont /Helvetica-Bold ")) -> "bold"
      [] StartsWith(body, Chars("<< /Type /Page ")) -> "page"
      [] StartsWith(body, Chars("<< /Length ")) -> "content"
      [] OTHER -> "none"

\* the kind the allocation order of lines 783-792 gives the id n
KindAllocated(n) ==
    CASE n = 1 -> "catalog" [] n = 2 -> "pages" [] n = 3 -> "regular" [] n = 4 -> "bold"
      [] n % 2 = 1 -> "page"
      [] OTHER -> "content"

\* the bytes lines 824-826 append for the object n
ObjectRecord(n) ==
    Dec(n) \o Chars(" 0 obj") \o << "\n" >> \o objects[n] \o << "\n" >> \o Chars("endobj")
        \o << "\n" >>

\* the records of the objects 1..n, in id order
RECURSIVE ObjectRecords(_)
ObjectRecords(n) == IF n = 0 THEN << >> ELSE ObjectRecords(n - 1) \o ObjectRecord(n)

\* the file header of line 819: 15 bytes
FileHeader == Chars("%PDF-1.4") \o << "\n", "%", "xE2", "xE3", "xCF", "xD3", "\n" >>

\* the ids are 1, 2, 3, ... with one page and one content object per page
TableShape ==
    ObjectsAllocated => DOMAIN objects = 0..(4 + 2 * Len(page_streams))

\* every id holds a non-empty body of the kind its place in the
\* allocation order gives it
TableFilled ==
    ObjectsSet =>
        \A n \in 1..(4 + 2 * Len(page_streams)) :
            objects[n] # << >> /\ ObjectKind(objects[n]) = KindAllocated(n)

\* the buffer holds, after the header, the record of every object written
\* so far exactly once and in increasing id order, and nothing else until
\* the last object is written
WrittenInIdOrder ==
    /\ pc = "write_objs" => out = FileHeader \o ObjectRecords(obj_id - 1)
    /\ pc \in {"write_trailer", "write_file", "rendered"} =>
          /\ obj_id = 5 + 2 * Len(page_streams)
          /\ IsPrefixOf(FileHeader \o ObjectRecords(obj_id - 1), out)
          /\ xref_offset = Len(FileHeader \o ObjectRecords(obj_id - 1))

\* C23: the object table is append-only: the ids are 1, 2, 3, ... in the
\* order catalog, page-tree root, regular font, bold font, then a page
\* object and a content object per page (4 + 2 * pages objects); no id is
\* reused or reordered, every object has a non-empty body before the
\* writing starts, and each object is written to the buffer exactly once,
\* in increasing id order.
C23_ObjectTableAppendOnly ==
    /\ [](TableShape /\ TableFilled /\ WrittenInIdOrder)
    /\ [][ObjectsSet => objects' = objects]_vars

\* the ten objects of a three-page file are written and the table follows
C23_Witness ==
    /\ pc = "write_trailer" /\ Len(page_streams) = 3 /\ obj_id = 11
    /\ ObjectKind(objects[9]) = "page" /\ ObjectKind(objects[10]) = "content"
    /\ xref_offset > 15

\* ---------------------------------------------------------------------
\* the write of the output file
\* ---------------------------------------------------------------------

\* the built-in renderer is laying out, paginating or filling the buffer
BuiltinAtWork ==
    pc \in {"render_builtin", "render_items", "alloc_objs", "set_objs", "write_header",
            "write_objs", "write_trailer", "write_file"}

\* the write_bytes calls of the built-in renderer so far, failed ones included
BuiltinWrites ==
    Cardinality({k \in 1..Len(attempts) :
                    attempts[k].renderer = "builtin" /\ attempts[k].step = "write"})

\* the buffer holds the header, every object, the cross-reference section
\* at xref_offset and, last, the trailer that names that offset
BufferComplete(buf) ==
    /\ IsPrefixOf(FileHeader \o ObjectRecords(4 + 2 * Len(page_streams)), buf)
    /\ xref_offset = Len(FileHeader \o ObjectRecords(4 + 2 * Len(page_streams)))
    /\ SubSeq(buf, xref_offset + 1, xref_offset + 5) = Chars("xref") \o << "\n" >>
    /\ EndsWith(buf, Chars("startxref") \o << "\n" >> \o Dec(xref_offset) \o << "\n" >>
                       \o Chars("%%EOF") \o << "\n" >>)

\* C25: in one run of the built-in renderer the output file is written
\* exactly once, after every object, the cross-reference section and the
\* trailer are in the buffer; no write happens while pages are laid out or
\* objects appended.
C25_SingleWriteOfCompleteBuffer ==
    /\ [](/\ BuiltinAtWork => written = << >> /\ BuiltinWrites = 0
          /\ BuiltinWrites <= 1
          /\ pc = "rendered" => BuiltinWrites = 1 /\ written = << out >> /\ BufferComplete(out))
    /\ [][written' # written =>
            /\ pc = "write_file"
            /\ written' = << out >>
            /\ BufferComplete(out)]_vars

\* a three-page file was written, once
C25_Witness ==
    /\ pc = "rendered" /\ Len(page_streams) = 3
    /\ Len(written) = 1 /\ written[1] = out
    /\ BuiltinWrites = 1

\* ---------------------------------------------------------------------
\* the layout of the contact facts
\* ---------------------------------------------------------------------

\* the contact facts of the document that have a label and a value to show
LabelledFacts ==
    LET facts == build_contact_items(data.contact)
    IN  {facts[k] : k \in {n \in 1..Len(facts) :
                              facts[n].label # << >> /\ Strip(facts[n].value) # << >>}}

\* the item is the key/value line of the fact: its label, a colon and a
\* space in bold, then its value
IsKeyValueLineOf(it, f) ==
    /\ it.type = "kvpara"
    /\ it.label = pdf_safe_text(f.label \o Chars(": "))
    /\ it.value = pdf_safe_text(Strip(f.value))

\* C26: every contact fact with a non-empty label is laid out as a
\* key/value line, its label in bold followed by its value; none is laid
\* out with its label omitted.
C26_LabelledFactsKeepLabel ==
    ItemsBuilt =>
        \A f \in LabelledFacts : \E k \in 1..Len(items) : IsKeyValueLineOf(items[k], f)

\* ---------------------------------------------------------------------
\* the page objects and their content streams
\* ---------------------------------------------------------------------

HasInfix(s, p) == \E k \in 0..(Len(s) - Len(p)) : SubSeq(s, k + 1, k + Len(p)) = p

\* "n 0 R"
Ref(n) == Dec(n) \o Chars(" 0 R")

\* the digits after "<< /Length " in the body of a content object
LengthDigits(body) ==
    LET ends == {k \in 12..Len(body) : body[k] = " "}
    IN  IF ends = {} THEN << >> ELSE SubSeq(body, 12, SetMin(ends) - 1)

\* the bytes between the line feed after `stream` and the line feed
\* before `endstream`
StreamBetween(body) ==
    LET from == 22 + Len(LengthDigits(body))
    IN  SubSeq(body, from + 1, Len(body) - 10)

\* the content object is a dictionary with the length, then the stream
\* between its two keywords
IsStreamObject(body) ==
    /\ StartsWith(body, Chars("<< /Length ") \o LengthDigits(body) \o Chars(" >>")
                          \o << "\n" >> \o Chars("stream") \o << "\n" >>)
    /\ EndsWith(body, << "\n" >> \o Chars("endstream"))
    /\ IsDecimal(LengthDigits(body))

\* C27: for every emitted page the page object's /Contents names the
\* content object with the next id, which holds exactly that page's stream
\* and whose /Length is the byte length of the stream between `stream` and
\* `endstream`; each page's /Parent is the page-tree root, whose /Kids
\* lists the page ids in page order and whose /Count is the number of pages.
C27_PagesReferToTheirStreams ==
    ObjectsSet =>
        LET n == Len(page_streams)
        IN  /\ \A idx \in 0..(n - 1) :
                  LET page == objects[5 + 2 * idx]
                      content == objects[6 + 2 * idx]
                  IN  /\ HasInfix(page, Chars("/Contents ") \o Ref(6 + 2 * idx) \o << " " >>)
                      /\ HasInfix(page, Chars("/Parent ") \o Ref(pages_id) \o << " " >>)
                      /\ IsStreamObject(content)
                      /\ StreamBetween(content) = page_streams[idx + 1]
                      /\ ParseDec(LengthDigits(content)) = Len(StreamBetween(content))
            /\ objects[pages_id] =
                  Chars("<< /Type /Pages /Kids [")
                    \o Join([k \in 1..n |-> Ref(5 + 2 * (k - 1))], << " " >>)
                    \o Chars("] /Count ") \o Dec(n) \o Chars(" >>")

\* the objects of a three-page file are set: the third page refers to
\* object 10, which holds the third stream
C27_Witness ==
    /\ pc = "write_header" /\ Len(page_streams) = 3
    /\ HasInfix(objects[9], Chars("/Contents 10 0 R"))
    /\ StreamBetween(objects[10]) = page_streams[3]
    /\ page_streams[3] # page_streams[1]

\* ---------------------------------------------------------------------
\* the two copies of build_contact_items
\* ---------------------------------------------------------------------

\* C28: the module-level build_contact_items and the copy nested in
\* render_docx return the same facts for every sequence of contact lines,
\* Address lines whose value holds only commas and spaces included.
C28_ContactCopiesAgree ==
    pc = "contact_done" => entries = build_contact_items_docx(contact_lines)

\* ---------------------------------------------------------------------
\* the Generate PDF flow
\* ---------------------------------------------------------------------

GenerationStarted(r) == r.stage \in {"scheduled", "generated"}

\* generation is started for no request with an empty text and for none
\* without a granted answer; the status "Generating PDF..." is shown only
\* while a generation is scheduled
GuiSafe ==
    /\ \A k \in 1..Len(gui_requests) :
          GenerationStarted(gui_requests[k]) =>
              ~gui_requests[k].empty /\ gui_requests[k].granted = "yes"
    /\ gui_status = "Generating PDF..." =>
          \E k \in 1..Len(gui_requests) : gui_requests[k].stage = "scheduled"

\* the step that ends a generation leaves a Success or a Failed status
GenerationEndsWithStatus ==
    (\E k \in 1..Len(gui_requests) :
        gui_requests[k].stage = "scheduled" /\ gui_requests'[k].stage = "generated")
      => gui_status' \in {"Success - Saved to path", "Failed - error"}

\* the stage of the k-th request, "none" before it is made
StageOf(k) == IF k <= Len(gui_requests) THEN gui_requests[k].stage ELSE "none"

\* C29: generate_pdf is never started for a request whose text is empty or
\* whose permission check reported denied, only after the callback
\* delivered granted; every request that starts generation ends with the
\* status set to "Success - ..." or "Failed - ...", never left at
\* "Generating PDF...".
C29_GenerationGuardedAndConcluded ==
    /\ []GuiSafe
    /\ [][GenerationEndsWithStatus]_vars
    /\ \A k \in 1..MaxRequests : (StageOf(k) = "scheduled") ~> (StageOf(k) = "generated")
    /\ <>[](gui_status # "Generating PDF...")

\* one request was denied and generated nothing, another was granted
\* through the dialog and its generation ended
C29_Witness ==
    /\ Len(gui_requests) = 2
    /\ gui_requests[1].stage = "denied" /\ gui_requests[1].granted = "no"
    /\ gui_requests[2].stage = "generated" /\ gui_requests[2].granted = "yes"
    /\ gui_status = "Failed - error"

\* ---------------------------------------------------------------------
\* the string literal of a text-show operator
\* ---------------------------------------------------------------------

\* the text between "(" and ") Tj"
LiteralText(cmd) == SubSeq(cmd, 2, Len(cmd) - 4)

\* read from the left, every backslash escapes a backslash or a
\* parenthesis that follows it, and no parenthesis stands unescaped
RECURSIVE WellEscaped(_)
WellEscaped(s) ==
    IF s = << >> THEN TRUE
    ELSE IF s[1] = "\\"
         THEN Len(s) >= 2 /\ s[2] \in {"\\", "(", ")"} /\ WellEscaped(SubSeq(s, 3, Len(s)))
         ELSE s[1] \notin {"(", ")"} /\ WellEscaped(Tail(s))

HasLineBreak(s) == \E k \in 1..Len(s) : s[k] = "\n"

=============================================================================
